---- MODULE Spec2Model ----
(***************************************************************************)
(* A state-machine model of the embedded X11 display server of             *)
(* GuitarRackCraft (app/src/main/cpp/x11/X11NativeDisplay.cpp) and of the  *)
(* display life cycle driven from jni/NativeBridge.cpp.                    *)
(*                                                                         *)
(* The model is split into groups of variables, one per concern of the     *)
(* program.  Each specification below exercises one group and leaves the   *)
(* others in their initial state:                                          *)
(*   SpecRender  protocol thread painting / compositor thread snapshotting *)
(*   SpecDetach, SpecDetachFair  detachSurface against the three threads   *)
(*   SpecTasks, SpecTasksFair    the closure queue of the callback thread  *)
(*   SpecSock    which threads send and receive on the client socket       *)
(*   SpecPhase   the display phase record, UI creation and teardown        *)
(*   SpecWire    request framing, sequence numbers and replies             *)
(*   SpecTouch   the touch queue, hit testing and pointer events           *)
(***************************************************************************)
EXTENDS Integers, Sequences, FiniteSets, TLC

(***************************************************************************)
(* Bounds of the model.                                                    *)
(***************************************************************************)
\* number of window writes (PutImage / CopyArea) the client issues
MaxWrites == 3
\* number of windows the client holds at a time
MaxChildWindows == 2
\* the same for a client with a popup: top-level window, popup, sub-window
MaxStackedWindows == 3
\* number of calls of injectTouch
MaxTouches == 2
\* synthesized events recorded per connection
MaxEvents == 1
\* number of host threads that call postTaskAndWait
MaxSubmitters == 2
\* number of requests the client writes on one connection
MaxRequests == 2
\* number of plugins in the chain at the start
MaxPlugins == 3
\* number of plugin UIs created
MaxUIs == 2
\* number of calls of X11Worker::postAndWait
MaxPosts == 3

Submitters == 1..MaxSubmitters

(***************************************************************************)
(* Group "render": Impl::framebuffer, renderBuffer, dirty, bufferMutex and *)
(* the positions of the compositor thread (renderLoop) and of the protocol *)
(* thread inside a window write.                                           *)
(*   fbWrites  number of window writes the framebuffer holds               *)
(*   rbWrites  number of window writes the staging buffer holds            *)
(***************************************************************************)
VARIABLES fbWrites, rbWrites, dirty, bufferMutex, renderThreadRunning,
          renderThreadExited, glInited, rpc, wpc, wop

renderVars == <<fbWrites, rbWrites, dirty, bufferMutex, renderThreadRunning,
                renderThreadExited, glInited, rpc, wpc, wop>>

(***************************************************************************)
(* Group "life": the threads of one attached display and the sockets.      *)
(*   spc, ppc, dpc, cpc  positions of the protocol thread (serverLoop),    *)
(*             the plugin-callback thread (pluginUILoop), the thread       *)
(*             inside detachSurface and the host thread inside             *)
(*             stopRenderThreadOnly                                        *)
(*   clientState   what the X client is doing: "none", "pending" (it has   *)
(*             connected and sits in the listen backlog), "connected"      *)
(*   closeElapsed  now - closeStartTime > 2 s                              *)
(*   childWindows  the ids of the windows created, in stacking order       *)
(*   sockAccess    the threads that have done a send or recv on clientFd   *)
(*   sub, taskDone the callers of postTaskAndWait and the closures run     *)
(*   window        the ANativeWindow: "surface" or "null"                  *)
(***************************************************************************)
VARIABLES running, serverFd, clientFd, spc, clientState, closingGracefully,
          destroyNotifySent, closeElapsed, detachDeferred, childWindows,
          sockAccess, pluginUIRunning, ppc, pluginUITasks, taskDone, sub,
          dpc, cpc, pluginUIThreadJoinable, serverThreadJoinable,
          renderThreadJoinable, window

connVars == <<running, serverFd, clientFd, spc, clientState, childWindows,
              destroyNotifySent, sockAccess>>
closeVars == <<closingGracefully, closeElapsed, detachDeferred>>
uiVars == <<pluginUIRunning, ppc, pluginUITasks, taskDone, sub>>
joinVars == <<pluginUIThreadJoinable, serverThreadJoinable, renderThreadJoinable,
              window>>
lifeVars == <<connVars, closeVars, uiVars, joinVars, dpc, cpc>>

\* the parts of the render group the life group's actions leave alone
paintVars == <<fbWrites, rbWrites, bufferMutex, wpc, wop>>
loopVars == <<dirty, renderThreadRunning, renderThreadExited, glInited, rpc>>

(***************************************************************************)
(* Group "phase": the DisplayState record of the display (DisplayState.h), *)
(* the display's entry in g_displays, the plugin UI, and the JNI threads.  *)
(*   hasState, phase, detachPending  the record in displayStates()         *)
(*   displayExists  g_displays holds the display                           *)
(*   uiExists       PluginUIManager holds a UI for the plugin              *)
(*   kpc, kResult, kPending  the thread in nativeBeginCreatePluginUI /     *)
(*                  nativeCreatePluginUI and its locals                    *)
(*   gpc, gPhase    the thread in nativeSignalDetachSurfaceFromDisplay     *)
(*   tpc            the thread in nativeDetachAndDestroyX11DisplayIfExists *)
(***************************************************************************)
VARIABLES phase, detachPending, hasState, creatingPluginUI, displayExists,
          uiExists, kpc, kResult, kPending, gpc, gPhase, tpc

recordVars == <<phase, detachPending, hasState>>
createVars == <<creatingPluginUI, uiExists, kpc, kResult, kPending>>
phaseVars == <<recordVars, createVars, displayExists, gpc, gPhase, tpc>>

(***************************************************************************)
(* Group "wire": the request stream of one connection, in 4-byte words.    *)
(*   stream   the requests the client has written, each a record           *)
(*            [op, minor, len, ext, fill]: the header's opcode, data byte  *)
(*            and 16-bit length, the 32-bit extended length that follows a *)
(*            length of 0, and the value every further body word holds     *)
(*   wpos     the number of words the protocol thread has consumed         *)
(*   seq      serverLoop's uint16_t seq                                    *)
(*   replies  the sequence fields of the replies sent, in order            *)
(*   lastReplySeq  Impl::lastReplySeq_                                     *)
(*   stamped  the sequence fields of the synthesized events sent on the    *)
(*            current connection, in order                                 *)
(***************************************************************************)
VARIABLES stream, wpos, seq, replies, lastReplySeq, stamped

wireVars == <<stream, wpos, seq, replies, lastReplySeq, stamped>>

(***************************************************************************)
(* Group "touch": the touch queue, the pointer state of drainTouchQueue    *)
(* and the window tables that hit testing reads.                           *)
(*   touchQueue     Impl::touchQueue, entries [action, x, y] with action   *)
(*                  0 = down, 1 = up, 2 = move                             *)
(*   touchLogCount  the call counter of injectTouch                        *)
(*   pending        the local vector of drainTouchQueue, the touches still *)
(*                  to be processed                                        *)
(*   windowSizes, windowPositions  functions from window id to [w, h] and  *)
(*                  to [x, y, parent]                                      *)
(*   originalChild  Impl::originalChildW, originalChildH                    *)
(*   pixmaps        Impl::pixmaps, a function from pixmap id to [w, h,     *)
(*                  pixels]                                                *)
(*   pointerEvents  the pointer events written to the client socket since  *)
(*                  it was accepted, in order                              *)
(***************************************************************************)
VARIABLES touchQueue, touchLogCount, pending, grabWindow, hasPendingDrag,
          pendingDragX, pendingDragY, pointerButton1Down,
          windowSizes, windowPositions, unmappedWindows, pluginWidth,
          pluginHeight, originalChild, pixmaps, pointerEvents

pointerVars == <<pending, grabWindow, hasPendingDrag, pendingDragX,
                 pendingDragY, pointerButton1Down>>
tableVars == <<windowSizes, windowPositions, unmappedWindows, pluginWidth,
               pluginHeight, originalChild, pixmaps>>
touchVars == <<touchQueue, touchLogCount, pointerVars, tableVars, pointerEvents>>

\* Image group: the byte order the client announced and the pixels of the
\* framebuffer (32-bit words, row by row)
VARIABLES msbFirst, framebuffer, handshake, surface

imageVars == <<msbFirst, framebuffer, handshake, surface>>

\* Atom group: the atom table of the display instance
VARIABLES atomNameToId, atomIdToName, nextAtomId, atomReply

atomVars == <<atomNameToId, atomIdToName, nextAtomId, atomReply>>

(***************************************************************************)
(* Manager group: PluginUIManager and the PluginChain it mirrors.          *)
(*   chain         PluginChain::plugins_, the plugins by identity          *)
(*   uiEntries     PluginUIManager::uiEntries_: per slot the UI held (0    *)
(*                 for a null unique_ptr), the display number and the      *)
(*                 shared index/detached pair the slot points to (0 for    *)
(*                 null shared_ptrs)                                       *)
(*   uiObjects     per UI ever created: the plugin and the display it was  *)
(*                 created for, the shared atomic index and detached flag  *)
(*   idleCallback  per display the UI whose closure is registered as the   *)
(*                 idle callback (0 for none)                              *)
(*   idled         the display of the last idle callback run and the UI    *)
(*                 it idled (0 for none)                                   *)
(***************************************************************************)
VARIABLES chain, uiEntries, uiObjects, idleCallback, idled

managerVars == <<chain, uiEntries, uiObjects, idleCallback, idled>>

(***************************************************************************)
(* Worker group: the X11Worker instance.                                   *)
(*   workerRunning  X11Worker::running_                                    *)
(*   tasks          X11Worker::tasks_, each task named by its submitter    *)
(*   workerPc       position of the worker thread in run()                 *)
(*   task           the local Task of run()                                *)
(*   postPc         per submitter the position in postAndWait              *)
(*   stopPc         position of the caller of stop()                       *)
(*   posted, executed  the tasks pushed and the tasks run, in order        *)
(***************************************************************************)
VARIABLES workerRunning, tasks, workerPc, task, postPc, stopPc, posted, executed

workerVars == <<workerRunning, tasks, workerPc, task, postPc, stopPc, posted,
                executed>>

vars == <<renderVars, lifeVars, phaseVars, wireVars, imageVars, atomVars,
          managerVars, workerVars, touchVars>>

nonRenderVars == <<lifeVars, phaseVars, wireVars, imageVars, atomVars, managerVars, workerVars, touchVars>>
nonLifeVars == <<renderVars, phaseVars, wireVars, imageVars, atomVars, managerVars, workerVars, touchVars>>
nonPhaseVars == <<renderVars, lifeVars, wireVars, imageVars, atomVars, managerVars, workerVars, touchVars>>
nonWireVars == <<renderVars, lifeVars, phaseVars, touchVars, imageVars, atomVars, managerVars, workerVars>>
nonServerVars == <<renderVars, phaseVars, wireVars, imageVars, atomVars, managerVars, workerVars>>
nonImageVars == <<renderVars, lifeVars, phaseVars, wireVars, touchVars, atomVars, managerVars, workerVars>>
nonAtomVars == <<renderVars, lifeVars, phaseVars, wireVars, touchVars, imageVars,
                 managerVars, workerVars>>
nonManagerVars == <<renderVars, lifeVars, phaseVars, wireVars, touchVars,
                    imageVars, atomVars, workerVars>>
nonWorkerVars == <<renderVars, lifeVars, phaseVars, wireVars, touchVars,
                   imageVars, atomVars, managerVars>>

\* attachSurface: framebuffer filled with the background, dirty set, the
\* compositor thread started at the top of its loop.
RenderInit ==
    /\ fbWrites = 0
    /\ rbWrites = 0
    /\ dirty = TRUE
    /\ bufferMutex = "free"
    /\ renderThreadRunning = TRUE
    /\ renderThreadExited = FALSE
    /\ glInited = FALSE
    /\ rpc = "loop"
    /\ wpc = "idle"
    /\ wop = "none"

(***************************************************************************)
(* Protocol thread: a PutImage or a CopyArea whose destination is a window *)
(***************************************************************************)
\* std::lock_guard<std::mutex> lock(bufferMutex)
ServerLockBuffer ==
    /\ wpc = "idle"
    /\ fbWrites < MaxWrites
    /\ bufferMutex = "free"
    /\ \E op \in {"PutImage", "CopyArea"} : wop' = op
    /\ bufferMutex' = "server"
    /\ wpc' = "locked"
    /\ UNCHANGED <<fbWrites, rbWrites, dirty, renderThreadRunning,
                   renderThreadExited, glInited, rpc>>
    /\ UNCHANGED nonRenderVars

\* the pixel loops: dstBuf[...] = pixel
ServerWriteWindow ==
    /\ wpc = "locked"
    /\ fbWrites' = fbWrites + 1
    /\ wpc' = "written"
    /\ UNCHANGED <<rbWrites, dirty, bufferMutex, renderThreadRunning,
                   renderThreadExited, glInited, rpc, wop>>
    /\ UNCHANGED nonRenderVars

\* if (isWindow) { dirty = true; dirtyCv.notify_one(); }
ServerSetDirty ==
    /\ wpc = "written"
    /\ dirty' = TRUE
    /\ wpc' = "dirtied"
    /\ UNCHANGED <<fbWrites, rbWrites, bufferMutex, renderThreadRunning,
                   renderThreadExited, glInited, rpc, wop>>
    /\ UNCHANGED nonRenderVars

\* end of the lock_guard's scope
ServerUnlockBuffer ==
    /\ wpc = "dirtied"
    /\ bufferMutex' = "free"
    /\ wpc' = "idle"
    /\ wop' = "none"
    /\ UNCHANGED <<fbWrites, rbWrites, dirty, renderThreadRunning,
                   renderThreadExited, glInited, rpc>>
    /\ UNCHANGED nonRenderVars

(***************************************************************************)
(* Compositor thread: Impl::renderLoop                                     *)
(***************************************************************************)
\* while (renderThreadRunning)
RenderLoopTop ==
    /\ rpc = "loop"
    /\ rpc' = IF renderThreadRunning THEN "wait" ELSE "exit"
    /\ UNCHANGED <<fbWrites, rbWrites, dirty, bufferMutex, renderThreadRunning,
                   renderThreadExited, glInited, wpc, wop>>
    /\ UNCHANGED nonRenderVars

\* dirtyCv.wait(lock, [] { return dirty || !renderThreadRunning; })
RenderWait ==
    /\ rpc = "wait"
    /\ dirty \/ ~renderThreadRunning
    /\ rpc' = "checkRunning"
    /\ UNCHANGED <<fbWrites, rbWrites, dirty, bufferMutex, renderThreadRunning,
                   renderThreadExited, glInited, wpc, wop>>
    /\ UNCHANGED nonRenderVars

\* if (!renderThreadRunning) break;
RenderCheckRunning ==
    /\ rpc = "checkRunning"
    /\ rpc' = IF renderThreadRunning THEN "checkDirty" ELSE "exit"
    /\ UNCHANGED <<fbWrites, rbWrites, dirty, bufferMutex, renderThreadRunning,
                   renderThreadExited, glInited, wpc, wop>>
    /\ UNCHANGED nonRenderVars

\* if (!dirty || eglSurface == EGL_NO_SURFACE) continue;
\* (the surface is bound from attachSurface on)
RenderCheckDirty ==
    /\ rpc = "checkDirty"
    /\ rpc' = IF dirty THEN "makeCurrent" ELSE "loop"
    /\ UNCHANGED <<fbWrites, rbWrites, dirty, bufferMutex, renderThreadRunning,
                   renderThreadExited, glInited, wpc, wop>>
    /\ UNCHANGED nonRenderVars

\* if (eglMakeCurrent(...) != EGL_TRUE) { usleep(5000); continue; }
RenderMakeCurrent ==
    /\ rpc = "makeCurrent"
    /\ \E ok \in BOOLEAN : rpc' = IF ok THEN "initGL" ELSE "loop"
    /\ UNCHANGED <<fbWrites, rbWrites, dirty, bufferMutex, renderThreadRunning,
                   renderThreadExited, glInited, wpc, wop>>
    /\ UNCHANGED nonRenderVars

\* if (!glInited) { glInited = initGL(); if (!glInited) { dirty = false; continue; } }
RenderInitGL ==
    /\ rpc = "initGL"
    /\ \/ /\ glInited
          /\ rpc' = "lock"
          /\ UNCHANGED <<glInited, dirty>>
       \/ /\ ~glInited
          /\ \E ok \in BOOLEAN :
                /\ glInited' = ok
                /\ dirty' = IF ok THEN dirty ELSE FALSE
                /\ rpc' = IF ok THEN "lock" ELSE "loop"
    /\ UNCHANGED <<fbWrites, rbWrites, bufferMutex, renderThreadRunning,
                   renderThreadExited, wpc, wop>>
    /\ UNCHANGED nonRenderVars

\* std::lock_guard<std::mutex> lock(bufferMutex);
RenderLockBuffer ==
    /\ rpc = "lock"
    /\ bufferMutex = "free"
    /\ bufferMutex' = "render"
    /\ rpc' = "snapshot"
    /\ UNCHANGED <<fbWrites, rbWrites, dirty, renderThreadRunning,
                   renderThreadExited, glInited, wpc, wop>>
    /\ UNCHANGED nonRenderVars

\* renderBuffer = framebuffer; and the end of the lock's scope
RenderSnapshot ==
    /\ rpc = "snapshot"
    /\ rbWrites' = fbWrites
    /\ bufferMutex' = "free"
    /\ rpc' = "clearDirty"
    /\ UNCHANGED <<fbWrites, dirty, renderThreadRunning,
                   renderThreadExited, glInited, wpc, wop>>
    /\ UNCHANGED nonRenderVars

\* dirty = false;  // Clear after snapshot
RenderClearDirty ==
    /\ rpc = "clearDirty"
    /\ dirty' = FALSE
    /\ rpc' = "draw"
    /\ UNCHANGED <<fbWrites, rbWrites, bufferMutex, renderThreadRunning,
                   renderThreadExited, glInited, wpc, wop>>
    /\ UNCHANGED nonRenderVars

\* the GL upload and draw from renderBuffer; if (!renderThreadRunning) break;
RenderDraw ==
    /\ rpc = "draw"
    /\ rpc' = IF renderThreadRunning THEN "swap" ELSE "exit"
    /\ UNCHANGED <<fbWrites, rbWrites, dirty, bufferMutex, renderThreadRunning,
                   renderThreadExited, glInited, wpc, wop>>
    /\ UNCHANGED nonRenderVars

\* if (eglSwapBuffers(...) != EGL_TRUE) break;
RenderSwap ==
    /\ rpc = "swap"
    /\ \E ok \in BOOLEAN : rpc' = IF ok THEN "loop" ELSE "exit"
    /\ UNCHANGED <<fbWrites, rbWrites, dirty, bufferMutex, renderThreadRunning,
                   renderThreadExited, glInited, wpc, wop>>
    /\ UNCHANGED nonRenderVars

\* renderThreadExited.store(true); renderExitCv.notify_all();
RenderExit ==
    /\ rpc = "exit"
    /\ renderThreadExited' = TRUE
    /\ rpc' = "exited"
    /\ UNCHANGED <<fbWrites, rbWrites, dirty, bufferMutex, renderThreadRunning,
                   glInited, wpc, wop>>
    /\ UNCHANGED nonRenderVars

(***************************************************************************)
(* Life group: attachSurface has bound the surface and started the three   *)
(* threads; the display's state record is Attached.                        *)
(***************************************************************************)
LifeInit ==
    /\ running = TRUE
    /\ serverFd = -1
    /\ clientFd = -1
    /\ spc = "start"
    /\ clientState = "none"
    /\ closingGracefully = FALSE
    /\ destroyNotifySent = FALSE
    /\ closeElapsed = FALSE
    /\ detachDeferred = FALSE
    /\ childWindows = <<>>
    /\ sockAccess = {}
    /\ pluginUIRunning = TRUE
    /\ ppc = "loop"
    /\ pluginUITasks = <<>>
    /\ taskDone = {}
    /\ sub = [s \in Submitters |-> "idle"]
    /\ dpc = "idle"
    /\ cpc = "idle"
    /\ pluginUIThreadJoinable = TRUE
    /\ serverThreadJoinable = TRUE
    /\ renderThreadJoinable = TRUE
    /\ window = "surface"

\* the creation guard of PluginUIGuard.h: plugin UI creation is in progress
\* for the display, i.e. its state record is in phase Creating
isCreatingPluginUIForDisplay == hasState /\ phase = "Creating"

(***************************************************************************)
(* Touch group: hit testing and the synthesized pointer events             *)
(***************************************************************************)
\* the drawable surface, Impl::width x Impl::height
SurfaceSize == [w |-> 8, h |-> 8]

\* the sizes the host gives the surface later on
SurfaceSizes == {SurfaceSize, [w |-> 4, h |-> 4], [w |-> 9, h |-> 8]}

\* 0xFF302020, the background the framebuffer is filled with, as the four
\* bytes of the word in memory (least significant first)
BackgroundPixel == <<32, 32, 48, 255>>

\* std::vector::assign(n, background)
FilledVector(n) == [i \in 1..n |-> BackgroundPixel]

\* std::vector::resize(n, background): the first elements are kept in their
\* linear order, new ones are the background
ResizedVector(v, n) == [i \in 1..n |-> IF i <= Len(v) THEN v[i] ELSE BackgroundPixel]

\* the points (surface coordinates) the host touches
TouchPoints == {<<0, 0>>, <<6, 2>>}

\* the geometry the client gives its windows: the position relative to the
\* parent and the size
WindowOrigins == {<<2, 0>>}
WindowExtents == {<<4, 4>>}

\* the window ids the client uses; kRootWindowId is 1.  A new window gets
\* the lowest id not in use.
WindowIds == 2..(1 + MaxChildWindows)

\* the ids of a client that opens a popup with a sub-window next to its
\* top-level window
StackedWindowIds == 2..(1 + MaxStackedWindows)

\* the set of the elements of a sequence
Range(q) == {q[i] : i \in 1..Len(q)}

\* C++ integer division and float-to-int conversion: towards zero
TruncDiv(a, b) == IF a >= 0 THEN a \div b ELSE -((-a) \div b)

\* getAbsolutePos: the position of a window relative to the top-level
\* window, by walking the parent chain (at most 32 links)
RECURSIVE AbsolutePosFrom(_, _)
AbsolutePosFrom(cur, depth) ==
    IF depth >= 32 \/ cur \notin DOMAIN windowPositions
      THEN <<0, 0>>
      ELSE LET p == windowPositions[cur]
               stop == \/ childWindows # <<>> /\ p.parent = childWindows[1]
                       \/ p.parent = 1
                       \/ p.parent = 0
               rest == IF stop THEN <<0, 0>>
                               ELSE AbsolutePosFrom(p.parent, depth + 1)
           IN  <<p.x + rest[1], p.y + rest[2]>>

getAbsolutePos(wid) == AbsolutePosFrom(wid, 0)

\* the loop of hitTestChildWindow, from the last window down to the second
RECURSIVE HitTestFrom(_, _, _)
HitTestFrom(i, x, y) ==
    IF i < 2
      THEN [wid |-> IF childWindows = <<>> THEN 1 ELSE childWindows[1],
            localX |-> x, localY |-> y]
      ELSE LET wid == childWindows[i] IN
           IF \/ wid \in unmappedWindows
              \/ wid \notin DOMAIN windowPositions
              \/ wid \notin DOMAIN windowSizes
             THEN HitTestFrom(i - 1, x, y)
             ELSE LET abs == getAbsolutePos(wid)
                      sz == windowSizes[wid]
                  IN  IF /\ x >= abs[1] /\ x < abs[1] + sz.w
                         /\ y >= abs[2] /\ y < abs[2] + sz.h
                        THEN [wid |-> wid, localX |-> x - abs[1],
                              localY |-> y - abs[2]]
                        ELSE HitTestFrom(i - 1, x, y)

\* a hit test that ignores the window table: always the root window
hitTestRootOnly(x, y) == [wid |-> 1, localX |-> x, localY |-> y]

\* hitTestChildWindow: the topmost mapped sub-window containing the point,
\* else the top-level window, else the root
hitTestChildWindow(x, y) == HitTestFrom(Len(childWindows), x, y)

\* sendEvent: the 32-byte pointer event; coordinates are written as 16-bit
\* words, the state is the override if given, else Button1Mask for a
\* release of button 1 and for a motion
sendEvent(type, windowId, x, y, button, stateOverride) ==
    [type |-> type,
     detail |-> IF type \in {"ButtonPress", "ButtonRelease"} THEN button ELSE 0,
     wid |-> windowId,
     x |-> x % 65536,
     y |-> y % 65536,
     state |-> IF stateOverride >= 0 THEN stateOverride
               ELSE IF type = "ButtonRelease" /\ button = 1 THEN 256
               ELSE IF type = "MotionNotify" THEN 256
               ELSE 0]

\* sendEventToChild: to the grabbed window if there is a grab, else to the
\* window under the point
sendEventToChild(grab, type, globalX, globalY, button) ==
    IF grab # 0
      THEN LET absPos == getAbsolutePos(grab)
           IN  sendEvent(type, grab, globalX - absPos[1], globalY - absPos[2],
                         button, -1)
      ELSE LET hit == hitTestChildWindow(globalX, globalY)
           IN  sendEvent(type, hit.wid, hit.localX, hit.localY, button, -1)

\* the letterbox mapping of injectTouch, from surface coordinates to the
\* plugin's: scale = min(width / pluginWidth, height / pluginHeight)
MapTouch(x, y) ==
    IF pluginWidth > 0 /\ surface.w > 0 /\ surface.h > 0
      THEN LET xIsMin == surface.w * pluginHeight < surface.h * pluginWidth
               num == IF xIsMin THEN surface.w ELSE surface.h
               den == IF xIsMin THEN pluginWidth ELSE pluginHeight
               x0 == TruncDiv(surface.w - TruncDiv(pluginWidth * num, den), 2)
               y0 == TruncDiv(surface.h - TruncDiv(pluginHeight * num, den), 2)
           IN  <<TruncDiv((x - x0) * den, num), TruncDiv((y - y0) * den, num)>>
      ELSE <<x, y>>

\* isWidgetAtPoint: the point is mapped as in injectTouch and hit-tested;
\* with at most one window any hit but the root counts, with more windows
\* any hit but the root and the top-level window
isWidgetAtPoint(surfaceX, surfaceY) ==
    LET m == MapTouch(surfaceX, surfaceY)
        hit == hitTestChildWindow(m[1], m[2])
        topWin == IF childWindows = <<>> THEN 1 ELSE childWindows[1]
        numChildren == Len(childWindows)
    IN  IF numChildren <= 1
          THEN hit.wid # 1
          ELSE hit.wid # 1 /\ hit.wid # topWin

\* an injection that appends every touch, moves included
injectTouchNoCoalesce(action, x, y) ==
    /\ touchLogCount < MaxTouches
    /\ touchLogCount' = touchLogCount + 1
    /\ LET m == MapTouch(x, y)
       IN  IF clientFd < 0
             THEN UNCHANGED touchQueue
             ELSE touchQueue' = Append(touchQueue,
                                       [action |-> action, x |-> m[1], y |-> m[2]])
    /\ UNCHANGED <<pointerVars, tableVars, pointerEvents>>
    /\ UNCHANGED <<renderVars, lifeVars, phaseVars, wireVars, imageVars, atomVars, managerVars, workerVars>>

\* injectTouch(action, x, y) on a caller thread: dropped without a client,
\* else queued; a move after a queued move overwrites its position
injectTouch(action, x, y) ==
    /\ touchLogCount < MaxTouches
    /\ touchLogCount' = touchLogCount + 1
    /\ LET m == MapTouch(x, y)
           n == Len(touchQueue)
       IN  IF clientFd < 0
             THEN UNCHANGED touchQueue
             ELSE IF action = 2 /\ n > 0 /\ touchQueue[n].action = 2
               THEN touchQueue' = [touchQueue EXCEPT ![n].x = m[1], ![n].y = m[2]]
               ELSE touchQueue' = Append(touchQueue,
                                         [action |-> action, x |-> m[1], y |-> m[2]])
    /\ UNCHANGED <<pointerVars, tableVars, pointerEvents>>
    /\ UNCHANGED <<renderVars, lifeVars, phaseVars, wireVars, imageVars, atomVars, managerVars, workerVars>>

InjectTouch == \E action \in 0..2 : \E p \in TouchPoints : injectTouch(action, p[1], p[2])

TouchInit ==
    /\ touchQueue = <<>>
    /\ touchLogCount = 0
    /\ pending = <<>>
    /\ grabWindow = 0
    /\ hasPendingDrag = FALSE
    /\ pendingDragX = 0
    /\ pendingDragY = 0
    /\ pointerButton1Down = FALSE
    /\ windowSizes = <<>>
    /\ windowPositions = <<>>
    /\ unmappedWindows = {}
    /\ pluginWidth = 0
    /\ pluginHeight = 0
    /\ originalChild = [w |-> 0, h |-> 0]
    /\ pixmaps = <<>>
    /\ pointerEvents = <<>>

(***************************************************************************)
(* Protocol thread: Impl::serverLoop, at the grain of its two loops        *)
(***************************************************************************)
\* socket / bind / listen; any of them failing returns from the thread
ServerListen ==
    /\ spc = "start"
    /\ \E ok \in BOOLEAN :
          /\ serverFd' = IF ok THEN 3 ELSE -1
          /\ spc' = IF ok THEN "outer" ELSE "exited"
    /\ UNCHANGED <<running, clientFd, clientState, childWindows,
                   destroyNotifySent, sockAccess>>
    /\ UNCHANGED <<closeVars, uiVars, joinVars, dpc, cpc>>
    /\ UNCHANGED nonLifeVars

\* while (running)
ServerOuterTop ==
    /\ spc = "outer"
    /\ spc' = IF running THEN "accept" ELSE "closeListen"
    /\ UNCHANGED <<running, serverFd, clientFd, clientState, childWindows,
                   destroyNotifySent, sockAccess>>
    /\ UNCHANGED <<closeVars, uiVars, joinVars, dpc, cpc>>
    /\ UNCHANGED nonLifeVars

\* the X client (the plugin's XOpenDisplay) connects to the listening port
ClientConnects ==
    /\ clientState = "none"
    /\ serverFd >= 0
    /\ clientState' = "pending"
    /\ UNCHANGED <<running, serverFd, clientFd, spc, childWindows,
                   destroyNotifySent, sockAccess>>
    /\ UNCHANGED <<closeVars, uiVars, joinVars, dpc, cpc>>
    /\ UNCHANGED nonLifeVars

\* clientFd = accept(serverFd, ...) returning a connection;
\* if (clientFd < 0 || !running) break;
ServerAccept ==
    /\ spc = "accept"
    /\ clientState = "pending"
    /\ clientFd' = 4
    /\ clientState' = "connected"
    /\ spc' = IF running THEN "setup" ELSE "closeListen"
    /\ pointerEvents' = <<>>
    /\ UNCHANGED <<running, serverFd, childWindows, destroyNotifySent,
                   sockAccess>>
    /\ UNCHANGED <<closeVars, uiVars, joinVars, dpc, cpc>>
    /\ UNCHANGED <<touchQueue, touchLogCount, pointerVars, tableVars>>
    /\ UNCHANGED nonServerVars

\* accept returning an error: clientFd < 0, break out of the outer loop
ServerAcceptFails ==
    /\ spc = "accept"
    /\ clientFd' = -1
    /\ spc' = "closeListen"
    /\ UNCHANGED <<running, serverFd, clientState, childWindows,
                   destroyNotifySent, sockAccess>>
    /\ UNCHANGED <<closeVars, uiVars, joinVars, dpc, cpc>>
    /\ UNCHANGED nonLifeVars

\* tables cleared, the 12-byte connection request read, the setup reply sent;
\* a failed read closes the connection and continues the outer loop
ServerSetup ==
    /\ spc = "setup"
    /\ childWindows' = <<>>
    /\ pixmaps' = <<>>
    /\ windowSizes' = <<>>
    /\ windowPositions' = <<>>
    /\ unmappedWindows' = {}
    /\ sockAccess' = sockAccess \cup {"server"}
    /\ \E ok \in BOOLEAN :
          /\ clientFd' = IF ok THEN clientFd ELSE -1
          /\ clientState' = IF ok THEN clientState ELSE "none"
          /\ spc' = IF ok THEN "inner" ELSE "outer"
    /\ UNCHANGED <<running, serverFd, destroyNotifySent>>
    /\ UNCHANGED <<closeVars, uiVars, joinVars, dpc, cpc>>
    /\ UNCHANGED <<touchQueue, touchLogCount, pointerVars, pluginWidth,
                   pluginHeight, originalChild, pointerEvents>>
    /\ UNCHANGED nonServerVars

\* while (running && clientFd >= 0) { if (closingGracefully.load()) ...
ServerInnerTop ==
    /\ spc = "inner"
    /\ spc' = IF running /\ clientFd >= 0
                THEN (IF closingGracefully THEN "closing" ELSE "drain")
                ELSE "closeClient"
    /\ UNCHANGED <<running, serverFd, clientFd, clientState, childWindows,
                   destroyNotifySent, sockAccess>>
    /\ UNCHANGED <<closeVars, uiVars, joinVars, dpc, cpc>>
    /\ UNCHANGED nonLifeVars

\* graceful teardown: DestroyNotify for the windows once, then break after
\* two seconds, else usleep and continue
ServerClosing ==
    /\ spc = "closing"
    /\ IF ~destroyNotifySent /\ childWindows # <<>>
         THEN /\ destroyNotifySent' = TRUE
              /\ sockAccess' = sockAccess \cup {"server"}
         ELSE UNCHANGED <<destroyNotifySent, sockAccess>>
    /\ spc' = IF closeElapsed THEN "closeClient" ELSE "inner"
    /\ UNCHANGED <<running, serverFd, clientFd, clientState, childWindows>>
    /\ UNCHANGED <<closeVars, uiVars, joinVars, dpc, cpc>>
    /\ UNCHANGED nonLifeVars

\* the steady clock passing closeStartTime + 2 s
CloseTimerExpires ==
    /\ closingGracefully
    /\ ~closeElapsed
    /\ closeElapsed' = TRUE
    /\ UNCHANGED <<closingGracefully, detachDeferred>>
    /\ UNCHANGED <<connVars, uiVars, joinVars, dpc, cpc>>
    /\ UNCHANGED nonLifeVars

\* drainTouchQueue, first part: the queue is swapped into the local vector
\* under touchQueueMutex.  The call is made before each poll, after each
\* dispatched request, and by the GetImage handler before it sends its
\* reply.
ServerDrainSwap ==
    /\ spc \in {"drain", "drainAfter", "getImageDrain"}
    /\ pending' = touchQueue
    /\ touchQueue' = <<>>
    /\ spc' = CASE spc = "drain" -> "draining"
                [] spc = "drainAfter" -> "drainingAfter"
                [] spc = "getImageDrain" -> "getImageDraining"
    /\ UNCHANGED <<running, serverFd, clientFd, clientState, childWindows,
                   destroyNotifySent, sockAccess>>
    /\ UNCHANGED <<closeVars, uiVars, joinVars, dpc, cpc>>
    /\ UNCHANGED <<touchLogCount, grabWindow, hasPendingDrag, pendingDragX,
                   pendingDragY, pointerButton1Down, tableVars, pointerEvents>>
    /\ UNCHANGED nonServerVars

\* a buffered drag written as one MotionNotify, if there is one
FlushedDrag ==
    IF hasPendingDrag
      THEN <<sendEventToChild(grabWindow, "MotionNotify", pendingDragX,
                              pendingDragY, 0)>>
      ELSE <<>>

\* drainTouchQueue, the body of its loop for one touch: a down flushes a
\* buffered drag, grabs the window under the point and sends MotionNotify
\* (state 0) and ButtonPress to it; an up flushes a buffered drag, sends
\* ButtonRelease and ends the grab; a move is buffered
ServerDrainTouch ==
    /\ spc \in {"draining", "drainingAfter", "getImageDraining"}
    /\ pending # <<>>
    /\ pending' = Tail(pending)
    /\ LET t == Head(pending) IN
       IF t.action = 0
         THEN LET hit == hitTestChildWindow(t.x, t.y) IN
              /\ pointerEvents' = pointerEvents \o FlushedDrag \o
                    <<sendEvent("MotionNotify", hit.wid, hit.localX,
                                hit.localY, 0, 0),
                      sendEvent("ButtonPress", hit.wid, hit.localX,
                                hit.localY, 1, -1)>>
              /\ hasPendingDrag' = FALSE
              /\ grabWindow' = hit.wid
              /\ pointerButton1Down' = TRUE
              /\ UNCHANGED <<pendingDragX, pendingDragY>>
       ELSE IF t.action = 1
         THEN /\ pointerEvents' = pointerEvents \o FlushedDrag \o
                    <<sendEventToChild(grabWindow, "ButtonRelease", t.x, t.y, 1)>>
              /\ hasPendingDrag' = FALSE
              /\ grabWindow' = 0
              /\ pointerButton1Down' = FALSE
              /\ UNCHANGED <<pendingDragX, pendingDragY>>
       ELSE /\ hasPendingDrag' = TRUE
            /\ pendingDragX' = t.x
            /\ pendingDragY' = t.y
            /\ UNCHANGED <<grabWindow, pointerButton1Down, pointerEvents>>
    /\ sockAccess' = IF pointerEvents' # pointerEvents
                       THEN sockAccess \cup {"server"} ELSE sockAccess
    /\ UNCHANGED <<running, serverFd, clientFd, spc, clientState, childWindows,
                   destroyNotifySent>>
    /\ UNCHANGED <<closeVars, uiVars, joinVars, dpc, cpc>>
    /\ UNCHANGED <<touchQueue, touchLogCount, tableVars>>
    /\ UNCHANGED nonServerVars

\* drainTouchQueue, last part: a buffered drag is flushed if a client is
\* connected and the flush interval (1/30 s) has elapsed since the last flush
ServerDrainFlush ==
    /\ spc \in {"draining", "drainingAfter", "getImageDraining"}
    /\ pending = <<>>
    /\ \E elapsed \in BOOLEAN :
          IF hasPendingDrag /\ clientFd >= 0 /\ elapsed
            THEN /\ pointerEvents' = pointerEvents \o FlushedDrag
                 /\ hasPendingDrag' = FALSE
                 /\ sockAccess' = sockAccess \cup {"server"}
            ELSE UNCHANGED <<pointerEvents, hasPendingDrag, sockAccess>>
    /\ spc' = CASE spc = "draining" -> "poll"
                [] spc = "drainingAfter" -> "inner"
                [] spc = "getImageDraining" -> "getImageReply"
    /\ UNCHANGED <<running, serverFd, clientFd, clientState, childWindows,
                   destroyNotifySent>>
    /\ UNCHANGED <<closeVars, uiVars, joinVars, dpc, cpc>>
    /\ UNCHANGED <<touchQueue, touchLogCount, pending, grabWindow, pendingDragX,
                   pendingDragY, pointerButton1Down, tableVars>>
    /\ UNCHANGED nonServerVars

\* poll(2 ms): nothing pending -> continue; error or hang-up -> break; else
\* one request that leaves the window tables alone is read and dispatched
ServerPoll ==
    /\ spc = "poll"
    /\ \E ev \in {"timeout", "hangup", "request"} :
          /\ spc' = CASE ev = "timeout" -> "inner"
                      [] ev = "hangup" -> "closeClient"
                      [] ev = "request" -> "drainAfter"
          /\ sockAccess' = IF ev = "request"
                             THEN sockAccess \cup {"server"} ELSE sockAccess
    /\ UNCHANGED <<running, serverFd, clientFd, clientState, childWindows,
                   destroyNotifySent>>
    /\ UNCHANGED <<closeVars, uiVars, joinVars, dpc, cpc>>
    /\ UNCHANGED nonLifeVars

\* a pass that reads a GetImage: the handler copies the pixels into the
\* reply buffer, then calls drainTouchQueue, then sends the reply
ServerGetImage ==
    /\ spc = "poll"
    /\ spc' = "getImageDrain"
    /\ sockAccess' = sockAccess \cup {"server"}
    /\ UNCHANGED <<running, serverFd, clientFd, clientState, childWindows,
                   destroyNotifySent>>
    /\ UNCHANGED <<closeVars, uiVars, joinVars, dpc, cpc>>
    /\ UNCHANGED nonLifeVars

\* sendReply of the GetImage handler; the loop then drains again
ServerGetImageReply ==
    /\ spc = "getImageReply"
    /\ spc' = "drainAfter"
    /\ sockAccess' = sockAccess \cup {"server"}
    /\ UNCHANGED <<running, serverFd, clientFd, clientState, childWindows,
                   destroyNotifySent>>
    /\ UNCHANGED <<closeVars, uiVars, joinVars, dpc, cpc>>
    /\ UNCHANGED nonLifeVars

\* a pass that reads a CreateWindow: the window is entered in the tables,
\* unmapped, at the end of childWindows; the first window with a size sets
\* the plugin's size
CreateWindowAmong(newIds, limit) ==
    /\ spc = "poll"
    /\ Len(childWindows) < limit
    /\ \E wid \in newIds :
       \E parentWid \in {1} \cup Range(childWindows) :
       \E pos \in WindowOrigins : \E ext \in WindowExtents :
          /\ windowSizes' = [w \in DOMAIN windowSizes \cup {wid} |->
                               IF w = wid THEN [w |-> ext[1], h |-> ext[2]]
                                          ELSE windowSizes[w]]
          /\ windowPositions' = [w \in DOMAIN windowPositions \cup {wid} |->
                                   IF w = wid
                                     THEN [x |-> pos[1], y |-> pos[2],
                                           parent |-> parentWid]
                                     ELSE windowPositions[w]]
          /\ childWindows' = Append(childWindows, wid)
          /\ unmappedWindows' = unmappedWindows \cup {wid}
          /\ IF pluginWidth = 0 /\ ext[1] > 0 /\ ext[2] > 0
               THEN /\ pluginWidth' = ext[1]
                    /\ pluginHeight' = ext[2]
                    /\ originalChild' = [w |-> ext[1], h |-> ext[2]]
                    /\ framebuffer' = FilledVector(ext[1] * ext[2])
               ELSE UNCHANGED <<pluginWidth, pluginHeight, originalChild,
                                framebuffer>>
    /\ spc' = "drainAfter"
    /\ sockAccess' = sockAccess \cup {"server"}
    /\ UNCHANGED <<running, serverFd, clientFd, clientState, destroyNotifySent>>
    /\ UNCHANGED <<closeVars, uiVars, joinVars, dpc, cpc>>
    /\ UNCHANGED <<touchQueue, touchLogCount, pointerVars, pointerEvents, pixmaps>>
    /\ UNCHANGED <<msbFirst, handshake, surface>>
    /\ UNCHANGED <<renderVars, phaseVars, wireVars, atomVars, managerVars, workerVars>>

\* a client that gives a new window the lowest id not in use
ServerCreateWindow ==
    CreateWindowAmong({w \in WindowIds \ Range(childWindows) :
                          \A v \in WindowIds \ Range(childWindows) : w <= v},
                      MaxChildWindows)

\* a client that gives a new window any id not in use
StackCreateWindow ==
    CreateWindowAmong(StackedWindowIds \ Range(childWindows), MaxStackedWindows)

\* the windows of the subtree of a window, by the parent links
RECURSIVE SubtreeOf(_)
SubtreeOf(ws) ==
    LET more == {w \in DOMAIN windowPositions :
                    windowPositions[w].parent \in ws /\ w \notin ws}
    IN  IF more = {} THEN ws ELSE SubtreeOf(ws \cup more)

\* the elements of a set of numbers in increasing order
RECURSIVE SortedSeq(_)
SortedSeq(S) ==
    IF S = {} THEN <<>>
    ELSE LET m == CHOOSE a \in S : \A b \in S : a <= b
         IN  <<m>> \o SortedSeq(S \ {m})

\* a pass that reads a MapWindow: the window becomes visible to hit
\* testing; a mapped child of the root other than the top-level window has
\* its subtree moved to the end of childWindows, in id order
MapWindowAmong(ids) ==
    /\ spc = "poll"
    /\ \E wid \in ids :
          /\ unmappedWindows' = unmappedWindows \ {wid}
          /\ IF /\ childWindows # <<>>
                /\ wid # childWindows[1]
                /\ wid \in DOMAIN windowPositions
                /\ windowPositions[wid].parent = 1
               THEN LET subtree == SubtreeOf({wid})
                        keep(w) == w \notin subtree
                    IN  childWindows' = SelectSeq(childWindows, keep)
                                          \o SortedSeq(subtree)
               ELSE UNCHANGED childWindows
    /\ spc' = "drainAfter"
    /\ sockAccess' = sockAccess \cup {"server"}
    /\ UNCHANGED <<running, serverFd, clientFd, clientState, destroyNotifySent>>
    /\ UNCHANGED <<closeVars, uiVars, joinVars, dpc, cpc>>
    /\ UNCHANGED <<touchQueue, touchLogCount, pointerVars, pointerEvents,
                   windowSizes, windowPositions, pluginWidth,
                   pluginHeight, originalChild, pixmaps>>
    /\ UNCHANGED nonServerVars

ServerMapWindow == MapWindowAmong(WindowIds)

StackMapWindow == MapWindowAmong(StackedWindowIds)

\* a pass that reads an UnmapWindow: the id is entered in unmappedWindows
\* (an Expose for the top-level window may follow; no table changes)
UnmapWindowAmong(ids) ==
    /\ spc = "poll"
    /\ \E umWid \in ids :
          unmappedWindows' = unmappedWindows \cup {umWid}
    /\ spc' = "drainAfter"
    /\ sockAccess' = sockAccess \cup {"server"}
    /\ UNCHANGED <<running, serverFd, clientFd, clientState, childWindows,
                   destroyNotifySent>>
    /\ UNCHANGED <<closeVars, uiVars, joinVars, dpc, cpc>>
    /\ UNCHANGED <<touchQueue, touchLogCount, pointerVars, pointerEvents,
                   windowSizes, windowPositions, pluginWidth,
                   pluginHeight, originalChild, pixmaps>>
    /\ UNCHANGED nonServerVars

ServerUnmapWindow == UnmapWindowAmong(WindowIds)

StackUnmapWindow == UnmapWindowAmong(StackedWindowIds)

\* the ConfigureWindow requests the client sends: a window, a value-mask
\* (bit 0 x, bit 1 y, bit 2 width, bit 3 height) and the values
ConfigureMasks == {3, 4, 12}
ConfigureRequests ==
    [cfgWid : WindowIds, vmask : ConfigureMasks, newX : {0}, newY : {0},
     valW : {6}, valH : {6}]

\* the window tables the ConfigureWindow handler reads and writes
WindowTables ==
    [childWindows |-> childWindows, windowPositions |-> windowPositions,
     windowSizes |-> windowSizes, pluginWidth |-> pluginWidth,
     pluginHeight |-> pluginHeight, framebuffer |-> framebuffer]

\* a size test that reports every request as a change of size
sizeChangedAlways(cfgWid, finalW, finalH, stored, tb) == TRUE

\* sizeChanged: the top-level window is compared with the plugin's size,
\* any other window with its stored size
sizeChanged(cfgWid, finalW, finalH, stored, tb) ==
    IF cfgWid = tb.childWindows[1]
      THEN finalW # tb.pluginWidth \/ finalH # tb.pluginHeight
      ELSE finalW # stored.w \/ finalH # stored.h

\* the ConfigureWindow handler on given tables: the tables after the
\* request and the events it writes to the client socket
ConfigureWindowResult(req, tb) ==
    LET cfgWid == req.cfgWid
        hasX == req.vmask % 2 = 1
        hasY == (req.vmask \div 2) % 2 = 1
        hasW == (req.vmask \div 4) % 2 = 1
        hasH == (req.vmask \div 8) % 2 = 1
        known == cfgWid \in DOMAIN tb.windowPositions
        xChanged == hasX /\ known /\ tb.windowPositions[cfgWid].x # req.newX
        yChanged == hasY /\ known /\ tb.windowPositions[cfgWid].y # req.newY
        posChanged == xChanged \/ yChanged
        pos1 == IF posChanged
                  THEN [tb.windowPositions EXCEPT
                          ![cfgWid].x = IF xChanged THEN req.newX ELSE @,
                          ![cfgWid].y = IF yChanged THEN req.newY ELSE @]
                  ELSE tb.windowPositions
        exposeTopWid == IF posChanged /\ tb.childWindows # <<>>
                          THEN tb.childWindows[1] ELSE 0
        exposeTop == IF exposeTopWid \in DOMAIN tb.windowSizes
                       THEN tb.windowSizes[exposeTopWid]
                       ELSE [w |-> 0, h |-> 0]
        newW == IF hasW THEN req.valW ELSE -1
        newH == IF hasH THEN req.valH ELSE -1
        isChildWin == cfgWid \in Range(tb.childWindows)
        resizes == isChildWin /\ (newW > 0 \/ newH > 0)
        stored == IF cfgWid \in DOMAIN tb.windowSizes
                    THEN tb.windowSizes[cfgWid] ELSE [w |-> 0, h |-> 0]
        finalW == IF newW > 0 THEN newW ELSE stored.w
        finalH == IF newH > 0 THEN newH ELSE stored.h
        changed == resizes /\ sizeChanged(cfgWid, finalW, finalH, stored, tb)
        isTopLevel == tb.childWindows # <<>> /\ cfgWid = tb.childWindows[1]
    IN  [childWindows |-> tb.childWindows,
         windowPositions |-> pos1,
         windowSizes |->
            IF resizes
              THEN [w \in DOMAIN tb.windowSizes \cup {cfgWid} |->
                      IF w = cfgWid THEN [w |-> finalW, h |-> finalH]
                                    ELSE tb.windowSizes[w]]
              ELSE tb.windowSizes,
         pluginWidth |-> IF changed /\ isTopLevel THEN finalW
                                                  ELSE tb.pluginWidth,
         pluginHeight |-> IF changed /\ isTopLevel THEN finalH
                                                   ELSE tb.pluginHeight,
         framebuffer |-> IF changed /\ isTopLevel
                           THEN ResizedVector(tb.framebuffer, finalW * finalH)
                           ELSE tb.framebuffer,
         events |->
            (IF changed
               THEN <<[type |-> "ConfigureNotify", wid |-> cfgWid,
                       w |-> finalW % 65536, h |-> finalH % 65536],
                      [type |-> "Expose", wid |-> cfgWid,
                       w |-> finalW % 65536, h |-> finalH % 65536]>>
               ELSE <<>>)
            \o (IF posChanged /\ exposeTopWid # 0
                      /\ exposeTop.w > 0 /\ exposeTop.h > 0
                   THEN <<[type |-> "Expose", wid |-> exposeTopWid,
                           w |-> exposeTop.w % 65536,
                           h |-> exposeTop.h % 65536]>>
                   ELSE <<>>)]

\* the MapSubwindows (9) and DestroySubwindows (5) requests the client
\* sends: 8 bytes, the opcode and a window.  Both share the case label of
\* ConfigureWindow, which reads the value-mask at byte 8 and the values from
\* byte 12 on of a request buffer that holds 8 bytes of this request; the
\* rest of the buffer (uint8_t buf[256], declared without initializer in the
\* loop body) is indeterminate and in practice holds the body of an earlier
\* request: any value-mask and values of ConfigureRequests, or zeros
SubwindowsOpcodes == {5, 9}
StaleMasks == ConfigureMasks \cup {0}
SubwindowsRequests ==
    [opcode : SubwindowsOpcodes, cfgWid : WindowIds, vmask : StaleMasks,
     newX : {0}, newY : {0}, valW : {6}, valH : {6}]

\* a pass that reads one of the requests reqs handled by case 12
ConfigureWindowAmong(reqs) ==
    /\ spc = "poll"
    /\ \E req \in reqs :
          LET r == ConfigureWindowResult(req, WindowTables) IN
          /\ windowPositions' = r.windowPositions
          /\ windowSizes' = r.windowSizes
          /\ pluginWidth' = r.pluginWidth
          /\ pluginHeight' = r.pluginHeight
          /\ framebuffer' = r.framebuffer
    /\ spc' = "drainAfter"
    /\ sockAccess' = sockAccess \cup {"server"}
    /\ UNCHANGED <<running, serverFd, clientFd, clientState, childWindows,
                   destroyNotifySent>>
    /\ UNCHANGED <<closeVars, uiVars, joinVars, dpc, cpc>>
    /\ UNCHANGED <<touchQueue, touchLogCount, pointerVars, pointerEvents,
                   unmappedWindows, originalChild, pixmaps>>
    /\ UNCHANGED <<msbFirst, handshake, surface>>
    /\ UNCHANGED <<renderVars, phaseVars, wireVars, atomVars, managerVars, workerVars>>

\* a pass that reads a ConfigureWindow
ServerConfigureWindow == ConfigureWindowAmong(ConfigureRequests)

\* the UI scale factors the host sets (setUiScale), as num / den
UiScales == {<<1, 1>>, <<1, 2>>}

\* the GetGeometry handler: the width and height of the reply for a
\* drawable under the scale factor uiScale
GetGeometryResult(drawable, uiScale) ==
    LET atLeastOne(v) == IF v < 1 THEN 1 ELSE v IN
    IF drawable \in DOMAIN windowSizes
      THEN windowSizes[drawable]
    ELSE IF drawable = 1 /\ originalChild.w > 0
      THEN [w |-> atLeastOne(TruncDiv(originalChild.w * uiScale[1], uiScale[2])),
            h |-> atLeastOne(TruncDiv(originalChild.h * uiScale[1], uiScale[2]))]
    ELSE surface

\* a pass that reads a GetGeometry: the reply is sent, nothing is stored
ServerGetGeometry ==
    /\ spc = "poll"
    /\ spc' = "drainAfter"
    /\ sockAccess' = sockAccess \cup {"server"}
    /\ UNCHANGED <<running, serverFd, clientFd, clientState, childWindows,
                   destroyNotifySent>>
    /\ UNCHANGED <<closeVars, uiVars, joinVars, dpc, cpc>>
    /\ UNCHANGED nonLifeVars

\* a pass that reads a MapSubwindows or a DestroySubwindows
ServerSubwindows == ConfigureWindowAmong(SubwindowsRequests)

\* a client that resizes windows and never moves them
ServerResizeWindow ==
    ConfigureWindowAmong({r \in ConfigureRequests : r.vmask = 12})

\* a pass that reads a DestroyWindow: the id is removed from the tables
DestroyWindowAmong(ids) ==
    /\ spc = "poll"
    /\ \E wid \in ids :
          LET keep(w) == w # wid IN
          /\ windowSizes' = [w \in DOMAIN windowSizes \ {wid} |-> windowSizes[w]]
          /\ windowPositions' = [w \in DOMAIN windowPositions \ {wid} |->
                                   windowPositions[w]]
          /\ unmappedWindows' = unmappedWindows \ {wid}
          /\ childWindows' = SelectSeq(childWindows, keep)
    /\ spc' = "drainAfter"
    /\ sockAccess' = sockAccess \cup {"server"}
    /\ UNCHANGED <<running, serverFd, clientFd, clientState, destroyNotifySent>>
    /\ UNCHANGED <<closeVars, uiVars, joinVars, dpc, cpc>>
    /\ UNCHANGED <<touchQueue, touchLogCount, pointerVars, pointerEvents,
                   pluginWidth, pluginHeight, originalChild, pixmaps>>
    /\ UNCHANGED nonServerVars

ServerDestroyWindow == DestroyWindowAmong(WindowIds)

\* if (clientFd >= 0) { close(clientFd); clientFd = -1; }
ServerCloseClient ==
    /\ spc = "closeClient"
    /\ clientFd' = -1
    /\ clientState' = "none"
    /\ spc' = "outer"
    /\ UNCHANGED <<running, serverFd, childWindows, destroyNotifySent,
                   sockAccess>>
    /\ UNCHANGED <<closeVars, uiVars, joinVars, dpc, cpc>>
    /\ UNCHANGED nonLifeVars

\* if (serverFd >= 0) { close(serverFd); serverFd = -1; } and the thread ends
ServerCloseListen ==
    /\ spc = "closeListen"
    /\ serverFd' = -1
    /\ spc' = "exited"
    /\ UNCHANGED <<running, clientFd, clientState, childWindows,
                   destroyNotifySent, sockAccess>>
    /\ UNCHANGED <<closeVars, uiVars, joinVars, dpc, cpc>>
    /\ UNCHANGED nonLifeVars

(***************************************************************************)
(* Plugin-callback thread: Impl::pluginUILoop                              *)
(***************************************************************************)
\* while (pluginUIRunning)
PluginLoopTop ==
    /\ ppc = "loop"
    /\ ppc' = IF pluginUIRunning THEN "tasks" ELSE "drain"
    /\ UNCHANGED <<pluginUIRunning, pluginUITasks, taskDone, sub>>
    /\ UNCHANGED <<connVars, closeVars, joinVars, dpc, cpc>>
    /\ UNCHANGED nonLifeVars

\* while (!pluginUITasks.empty()) { task = front(); pop(); task(); }
PluginRunTask ==
    /\ ppc = "tasks"
    /\ pluginUITasks # <<>>
    /\ taskDone' = taskDone \cup {Head(pluginUITasks)}
    /\ pluginUITasks' = Tail(pluginUITasks)
    /\ UNCHANGED <<pluginUIRunning, ppc, sub>>
    /\ UNCHANGED <<connVars, closeVars, joinVars, dpc, cpc>>
    /\ UNCHANGED nonLifeVars

\* the queue is empty: the idle callback is called
PluginIdle ==
    /\ ppc = "tasks"
    /\ pluginUITasks = <<>>
    /\ ppc' = "wait"
    /\ UNCHANGED <<pluginUIRunning, pluginUITasks, taskDone, sub>>
    /\ UNCHANGED <<connVars, closeVars, joinVars, dpc, cpc>>
    /\ UNCHANGED nonLifeVars

\* pluginUITaskCv.wait_for(lock, 16 ms, ...): returns on a task, on the stop
\* flag, or on the timeout
PluginWaitFor ==
    /\ ppc = "wait"
    /\ ppc' = "loop"
    /\ UNCHANGED <<pluginUIRunning, pluginUITasks, taskDone, sub>>
    /\ UNCHANGED <<connVars, closeVars, joinVars, dpc, cpc>>
    /\ UNCHANGED nonLifeVars

\* the shutdown drain: while (!pluginUITasks.empty()) { ... task(); }
PluginDrainTask ==
    /\ ppc = "drain"
    /\ pluginUITasks # <<>>
    /\ taskDone' = taskDone \cup {Head(pluginUITasks)}
    /\ pluginUITasks' = Tail(pluginUITasks)
    /\ UNCHANGED <<pluginUIRunning, ppc, sub>>
    /\ UNCHANGED <<connVars, closeVars, joinVars, dpc, cpc>>
    /\ UNCHANGED nonLifeVars

\* the drain finds the queue empty and the thread function returns
PluginExit ==
    /\ ppc = "drain"
    /\ pluginUITasks = <<>>
    /\ ppc' = "exited"
    /\ UNCHANGED <<pluginUIRunning, pluginUITasks, taskDone, sub>>
    /\ UNCHANGED <<connVars, closeVars, joinVars, dpc, cpc>>
    /\ UNCHANGED nonLifeVars

(***************************************************************************)
(* Host threads calling postTaskAndWait (through                           *)
(* withDisplayPostTaskAndWait: the display is in g_displays)               *)
(***************************************************************************)
\* pluginUITasks.push(wrapper); notify_one(); then fut.get()
PostTaskAndWait(s) ==
    /\ sub[s] = "idle"
    /\ pluginUITasks' = Append(pluginUITasks, s)
    /\ sub' = [sub EXCEPT ![s] = "waiting"]
    /\ UNCHANGED <<pluginUIRunning, ppc, taskDone>>
    /\ UNCHANGED <<connVars, closeVars, joinVars, dpc, cpc>>
    /\ UNCHANGED nonLifeVars

\* fut.get() returns once the wrapper has run done.set_value()
PostTaskReturns(s) ==
    /\ sub[s] = "waiting"
    /\ s \in taskDone
    /\ sub' = [sub EXCEPT ![s] = "returned"]
    /\ UNCHANGED <<pluginUIRunning, ppc, pluginUITasks, taskDone>>
    /\ UNCHANGED <<connVars, closeVars, joinVars, dpc, cpc>>
    /\ UNCHANGED nonLifeVars

(***************************************************************************)
(* X11NativeDisplay::detachSurface and signalDetach                        *)
(***************************************************************************)
\* nativeDetachSurfaceFromDisplay: if (disp) disp->detachSurface();
HostDetach ==
    /\ dpc \in {"idle", "returned"}
    /\ dpc' = "called"
    /\ UNCHANGED <<connVars, closeVars, uiVars, joinVars, cpc>>
    /\ UNCHANGED nonLifeVars

\* if (clientFd < 0 && !serverThread.joinable()) return;
DetachEnter ==
    /\ dpc = "called"
    /\ dpc' = IF clientFd < 0 /\ ~serverThreadJoinable THEN "returned" ELSE "signal"
    /\ UNCHANGED <<connVars, closeVars, uiVars, joinVars, cpc>>
    /\ UNCHANGED nonLifeVars

\* bool deferred = signalDetach(); if (deferred) return;
DetachSignal ==
    /\ dpc = "signal"
    /\ IF isCreatingPluginUIForDisplay
         THEN /\ detachDeferred' = TRUE
              /\ dpc' = "returned"
              /\ UNCHANGED <<closingGracefully, closeElapsed>>
         ELSE IF closingGracefully
           THEN /\ dpc' = "stopUI"
                /\ UNCHANGED <<closingGracefully, closeElapsed, detachDeferred>>
           ELSE /\ closingGracefully' = TRUE
                /\ closeElapsed' = FALSE
                /\ dpc' = "stopUI"
                /\ UNCHANGED detachDeferred
    /\ UNCHANGED <<connVars, uiVars, joinVars, cpc>>
    /\ UNCHANGED nonLifeVars

\* pluginUIRunning = false; pluginUITaskCv.notify_all();
DetachStopPluginUI ==
    /\ dpc = "stopUI"
    /\ pluginUIRunning' = FALSE
    /\ dpc' = "joinUI"
    /\ UNCHANGED <<ppc, pluginUITasks, taskDone, sub>>
    /\ UNCHANGED <<connVars, closeVars, joinVars, cpc>>
    /\ UNCHANGED nonLifeVars

\* if (pluginUIThread.joinable()) pluginUIThread.join();
DetachJoinPluginUI ==
    /\ dpc = "joinUI"
    /\ pluginUIThreadJoinable => ppc = "exited"
    /\ pluginUIThreadJoinable' = FALSE
    /\ dpc' = "joinServer"
    /\ UNCHANGED <<serverThreadJoinable, renderThreadJoinable, window>>
    /\ UNCHANGED <<connVars, closeVars, uiVars, cpc>>
    /\ UNCHANGED nonLifeVars

\* if (serverThread.joinable()) serverThread.join();
DetachJoinServer ==
    /\ dpc = "joinServer"
    /\ serverThreadJoinable => spc = "exited"
    /\ serverThreadJoinable' = FALSE
    /\ dpc' = "joinRender"
    /\ UNCHANGED <<pluginUIThreadJoinable, renderThreadJoinable, window>>
    /\ UNCHANGED <<connVars, closeVars, uiVars, cpc>>
    /\ UNCHANGED nonLifeVars

\* if (renderThread.joinable()) renderThread.join();
DetachJoinRender ==
    /\ dpc = "joinRender"
    /\ renderThreadJoinable => rpc = "exited"
    /\ renderThreadJoinable' = FALSE
    /\ dpc' = "release"
    /\ UNCHANGED <<pluginUIThreadJoinable, serverThreadJoinable, window>>
    /\ UNCHANGED <<connVars, closeVars, uiVars, cpc>>
    /\ UNCHANGED nonLifeVars

\* the window released, the framebuffer cleared, both sockets closed
DetachRelease ==
    /\ dpc = "release"
    /\ window' = "null"
    /\ framebuffer' = <<>>
    /\ clientFd' = -1
    /\ serverFd' = -1
    /\ dpc' = "returned"
    /\ UNCHANGED <<running, spc, clientState, childWindows, destroyNotifySent,
                   sockAccess>>
    /\ UNCHANGED <<pluginUIThreadJoinable, serverThreadJoinable,
                   renderThreadJoinable>>
    /\ UNCHANGED <<closeVars, uiVars, cpc>>
    /\ UNCHANGED <<msbFirst, handshake, surface>>
    /\ UNCHANGED <<renderVars, phaseVars, wireVars, touchVars, atomVars, managerVars, workerVars>>

(***************************************************************************)
(* Host-facing operations on the compositor thread                         *)
(***************************************************************************)
\* renderThreadRunning = false; dirtyCv.notify_all(); then the bounded wait
StopRenderThreadOnly ==
    /\ cpc = "idle"
    /\ renderThreadRunning' = FALSE
    /\ cpc' = IF renderThreadJoinable THEN "stopWait" ELSE "idle"
    /\ UNCHANGED <<dirty, renderThreadExited, glInited, rpc>>
    /\ UNCHANGED <<connVars, closeVars, uiVars, joinVars, dpc>>
    /\ UNCHANGED <<paintVars, phaseVars, wireVars, imageVars, atomVars, managerVars, workerVars, touchVars>>

\* renderExitCv.wait_for(lock, 500 ms, exited): returns either way
StopRenderThreadWait ==
    /\ cpc = "stopWait"
    /\ cpc' = "idle"
    /\ UNCHANGED <<connVars, closeVars, uiVars, joinVars, dpc>>
    /\ UNCHANGED nonLifeVars

\* the body of startRenderThread, under renderExitMutex: a live thread only
\* gets its flags set; an exited one is joined, a new one started, and
\* sendExposeToAllWindows() writes to clientFd if a client is connected
StartRenderThreadBody ==
    IF renderThreadJoinable /\ ~renderThreadExited
      THEN /\ renderThreadRunning' = TRUE
           /\ dirty' = TRUE
           /\ UNCHANGED <<renderThreadExited, glInited, rpc>>
           /\ UNCHANGED <<sockAccess, renderThreadJoinable>>
      ELSE /\ renderThreadJoinable => rpc = "exited"
           /\ renderThreadExited' = FALSE
           /\ renderThreadRunning' = TRUE
           /\ dirty' = TRUE
           /\ rpc' = "loop"
           /\ glInited' = FALSE
           /\ renderThreadJoinable' = TRUE
           /\ sockAccess' = IF clientFd >= 0 THEN sockAccess \cup {"caller"}
                                             ELSE sockAccess

StartRenderThread ==
    /\ cpc = "idle"
    /\ StartRenderThreadBody
    /\ UNCHANGED <<running, serverFd, clientFd, spc, clientState, childWindows,
                   destroyNotifySent>>
    /\ UNCHANGED <<pluginUIThreadJoinable, serverThreadJoinable, window>>
    /\ UNCHANGED <<closeVars, uiVars, dpc, cpc>>
    /\ UNCHANGED <<paintVars, phaseVars, wireVars, imageVars, atomVars, managerVars, workerVars, touchVars>>

\* requestFrame: restart an exited compositor thread, else set dirty
RequestFrame ==
    /\ cpc = "idle"
    /\ IF window # "null"
         THEN IF renderThreadExited
                THEN StartRenderThreadBody
                ELSE /\ dirty' = TRUE
                     /\ UNCHANGED <<renderThreadRunning, renderThreadExited,
                                    glInited, rpc>>
                     /\ UNCHANGED <<sockAccess, renderThreadJoinable>>
         ELSE /\ UNCHANGED loopVars
              /\ UNCHANGED <<sockAccess, renderThreadJoinable>>
    /\ UNCHANGED <<running, serverFd, clientFd, spc, clientState, childWindows,
                   destroyNotifySent>>
    /\ UNCHANGED <<pluginUIThreadJoinable, serverThreadJoinable, window>>
    /\ UNCHANGED <<closeVars, uiVars, dpc, cpc>>
    /\ UNCHANGED <<paintVars, phaseVars, wireVars, imageVars, atomVars, managerVars, workerVars, touchVars>>

\* setSurfaceSize(width > 0, height > 0): under bufferMutex the size is
\* stored, an empty framebuffer is filled at the effective size, and
\* dirty = true
SetSurfaceSize ==
    /\ cpc = "idle"
    /\ bufferMutex = "free"
    /\ \E sz \in SurfaceSizes :
          /\ surface' = sz
          /\ framebuffer' =
                IF framebuffer = <<>>
                  THEN FilledVector(
                         (IF pluginWidth > 0 THEN pluginWidth ELSE sz.w)
                           * (IF pluginHeight > 0 THEN pluginHeight ELSE sz.h))
                  ELSE framebuffer
    /\ dirty' = TRUE
    /\ UNCHANGED <<renderThreadRunning, renderThreadExited, glInited, rpc>>
    /\ UNCHANGED lifeVars
    /\ UNCHANGED <<msbFirst, handshake>>
    /\ UNCHANGED <<paintVars, phaseVars, wireVars, atomVars, managerVars, workerVars, touchVars>>

\* the steps of the protocol thread that need nothing from outside (with no
\* touch queued, drainTouchQueue has no touch to process)
ServerStep ==
    \/ ServerListen
    \/ ServerOuterTop
    \/ ServerAccept
    \/ ServerSetup
    \/ ServerInnerTop
    \/ ServerClosing
    \/ ServerDrainSwap
    \/ ServerDrainFlush
    \/ ServerPoll
    \/ ServerCreateWindow
    \/ ServerCloseClient
    \/ ServerCloseListen

\* the steps of the plugin-callback thread
PluginStep ==
    \/ PluginLoopTop
    \/ PluginRunTask
    \/ PluginIdle
    \/ PluginWaitFor
    \/ PluginDrainTask
    \/ PluginExit

\* the steps of the compositor thread
RenderStep ==
    \/ RenderLoopTop
    \/ RenderWait
    \/ RenderCheckRunning
    \/ RenderCheckDirty
    \/ RenderMakeCurrent
    \/ RenderInitGL
    \/ RenderLockBuffer
    \/ RenderSnapshot
    \/ RenderClearDirty
    \/ RenderDraw
    \/ RenderSwap
    \/ RenderExit

\* the steps of the thread inside detachSurface, once it has been called
DetachStep ==
    \/ DetachEnter
    \/ DetachSignal
    \/ DetachStopPluginUI
    \/ DetachJoinPluginUI
    \/ DetachJoinServer
    \/ DetachJoinRender
    \/ DetachRelease

\* teardown: the three threads, the client, and a host that may pause the
\* compositor (nativeHideX11Display) and calls detachSurface
NextDetach ==
    \/ ServerStep
    \/ ClientConnects
    \/ ServerAcceptFails
    \/ CloseTimerExpires
    \/ PluginLoopTop
    \/ PluginIdle
    \/ PluginWaitFor
    \/ PluginExit
    \/ RenderStep
    \/ StopRenderThreadOnly
    \/ StopRenderThreadWait
    \/ HostDetach
    \/ DetachStep

\* the closure queue: the plugin-callback thread, the callers of
\* postTaskAndWait, and detachSurface up to its join of that thread
NextTasks ==
    \/ PluginStep
    \/ \E s \in Submitters : PostTaskAndWait(s)
    \/ \E s \in Submitters : PostTaskReturns(s)
    \/ HostDetach
    \/ DetachEnter
    \/ DetachSignal
    \/ DetachStopPluginUI
    \/ DetachJoinPluginUI

\* socket ownership: the protocol thread serving a client while the host
\* pauses, resumes, resizes and requests frames
NextSock ==
    \/ ServerListen
    \/ ServerOuterTop
    \/ ClientConnects
    \/ ServerAccept
    \/ ServerAcceptFails
    \/ ServerSetup
    \/ ServerInnerTop
    \/ ServerDrainSwap
    \/ ServerDrainFlush
    \/ ServerPoll
    \/ ServerCreateWindow
    \/ ServerCloseClient
    \/ ServerCloseListen
    \/ RenderStep
    \/ StopRenderThreadOnly
    \/ StopRenderThreadWait
    \/ StartRenderThread
    \/ RequestFrame
    \/ SetSurfaceSize

\* touch delivery: the protocol thread serving a client that creates, maps
\* and destroys windows, while the host injects touches
NextTouch ==
    \/ ServerListen
    \/ ServerOuterTop
    \/ ClientConnects
    \/ ServerAccept
    \/ ServerAcceptFails
    \/ ServerSetup
    \/ ServerInnerTop
    \/ ServerDrainSwap
    \/ ServerDrainTouch
    \/ ServerDrainFlush
    \/ ServerPoll
    \/ ServerGetImage
    \/ ServerGetImageReply
    \/ ServerCreateWindow
    \/ ServerMapWindow
    \/ ServerUnmapWindow
    \/ ServerDestroyWindow
    \/ ServerCloseClient
    \/ ServerCloseListen
    \/ InjectTouch

(***************************************************************************)
(* Phase group: NativeBridge.cpp.  nativeAttachSurfaceToDisplay has        *)
(* created the record in phase Attached and the display.                   *)
(***************************************************************************)
PhaseInit ==
    /\ phase = "Attached"
    /\ detachPending = FALSE
    /\ hasState = TRUE
    /\ creatingPluginUI = FALSE
    /\ displayExists = TRUE
    /\ uiExists = FALSE
    /\ kpc = "idle"
    /\ kResult = FALSE
    /\ kPending = FALSE
    /\ gpc = "idle"
    /\ gPhase = "None"
    /\ tpc = "idle"

\* getDisplayPhase: the record's phase under the mutex, None without a record
getDisplayPhase == IF hasState THEN phase ELSE "None"

\* nativeBeginCreatePluginUI: under the mutex phase = Creating,
\* detachPending = false; then setCreatingPluginUI(true)
NativeBeginCreatePluginUI ==
    /\ kpc = "idle"
    /\ hasState' = TRUE
    /\ phase' = "Creating"
    /\ detachPending' = FALSE
    /\ creatingPluginUI' = TRUE
    /\ kResult' = FALSE
    /\ kPending' = FALSE
    /\ kpc' = "begun"
    /\ UNCHANGED <<uiExists, displayExists, gpc, gPhase, tpc>>
    /\ UNCHANGED nonPhaseVars

\* nativeCreatePluginUI up to the return of createPluginUI: without an audio
\* engine the phase is set to None and the call returns; createPluginUI
\* destroys the plugin's previous UI and instantiates (it fails when the
\* display is not in g_displays)
NativeCreatePluginUI ==
    /\ kpc = "begun"
    /\ \E audioEngine \in BOOLEAN, ok \in BOOLEAN :
          IF ~audioEngine
            THEN /\ hasState' = TRUE
                 /\ phase' = "None"
                 /\ kpc' = "idle"
                 /\ UNCHANGED <<detachPending, uiExists, kResult>>
            ELSE /\ kResult' = (ok /\ displayExists)
                 /\ uiExists' = (ok /\ displayExists)
                 /\ kpc' = "created"
                 /\ UNCHANGED recordVars
    /\ UNCHANGED <<creatingPluginUI, kPending, displayExists, gpc, gPhase, tpc>>
    /\ UNCHANGED nonPhaseVars

\* under the mutex: detachPending = it->second.detachPending;
\* phase = result ? Ready : None
CreateReadPending ==
    /\ kpc = "created"
    /\ IF hasState
         THEN /\ kPending' = detachPending
              /\ phase' = IF kResult THEN "Ready" ELSE "None"
         ELSE UNCHANGED <<kPending, phase>>
    /\ kpc' = "checked"
    /\ UNCHANGED <<detachPending, hasState, creatingPluginUI, uiExists, kResult>>
    /\ UNCHANGED <<displayExists, gpc, gPhase, tpc>>
    /\ UNCHANGED nonPhaseVars

\* if (detachPending && result) destroyPluginUI(pluginIndex);
CreateHonorDetach ==
    /\ kpc = "checked"
    /\ IF kPending /\ kResult
         THEN /\ uiExists' = FALSE
              /\ kpc' = "setNone"
         ELSE /\ kpc' = "return"
              /\ UNCHANGED uiExists
    /\ UNCHANGED <<recordVars, creatingPluginUI, kResult, kPending>>
    /\ UNCHANGED <<displayExists, gpc, gPhase, tpc>>
    /\ UNCHANGED nonPhaseVars

\* setDisplayPhase(displayNumber, None) after the deferred destroy
CreateSetNone ==
    /\ kpc = "setNone"
    /\ hasState' = TRUE
    /\ phase' = "None"
    /\ kpc' = "return"
    /\ UNCHANGED <<detachPending, creatingPluginUI, uiExists, kResult, kPending>>
    /\ UNCHANGED <<displayExists, gpc, gPhase, tpc>>
    /\ UNCHANGED nonPhaseVars

\* setCreatingPluginUI(false); return result
CreateReturn ==
    /\ kpc = "return"
    /\ creatingPluginUI' = FALSE
    /\ kpc' = "idle"
    /\ UNCHANGED <<recordVars, uiExists, kResult, kPending>>
    /\ UNCHANGED <<displayExists, gpc, gPhase, tpc>>
    /\ UNCHANGED nonPhaseVars

\* nativeSignalDetachSurfaceFromDisplay: auto phase = getDisplayPhase(n);
SignalReadPhase ==
    /\ gpc = "idle"
    /\ gPhase' = getDisplayPhase
    /\ gpc' = "read"
    /\ UNCHANGED <<recordVars, createVars, displayExists, tpc>>
    /\ UNCHANGED nonPhaseVars

\* if (phase == Creating) { lock; detachPending = true; return "deferred" }
\* else { lock; phase = Destroying }
SignalApply ==
    /\ gpc = "read"
    /\ IF gPhase = "Creating"
         THEN /\ detachPending' = IF hasState THEN TRUE ELSE detachPending
              /\ UNCHANGED phase
         ELSE /\ phase' = IF hasState THEN "Destroying" ELSE phase
              /\ UNCHANGED detachPending
    /\ gpc' = "idle"
    /\ UNCHANGED <<hasState, createVars, displayExists, gPhase, tpc>>
    /\ UNCHANGED nonPhaseVars

\* nativeDetachAndDestroyX11DisplayIfExists:
\* phase = getDisplayPhase(n); if (phase == Creating) return;
TeardownReadPhase ==
    /\ tpc = "idle"
    /\ tpc' = IF getDisplayPhase = "Creating" THEN "idle" ELSE "setDestroying"
    /\ UNCHANGED <<recordVars, createVars, displayExists, gpc, gPhase>>
    /\ UNCHANGED nonPhaseVars

\* setDisplayPhase(displayNumber, Destroying)
TeardownSetDestroying ==
    /\ tpc = "setDestroying"
    /\ hasState' = TRUE
    /\ phase' = "Destroying"
    /\ tpc' = "getDisplay"
    /\ UNCHANGED <<detachPending, createVars, displayExists, gpc, gPhase>>
    /\ UNCHANGED nonPhaseVars

\* disp = getX11Display(n); if (disp) disp->detachSurface() ...
TeardownCallDetach ==
    /\ tpc = "getDisplay"
    /\ dpc \in {"idle", "returned"}
    /\ IF displayExists
         THEN /\ dpc' = "called"
              /\ tpc' = "inDetach"
         ELSE /\ tpc' = "erase"
              /\ UNCHANGED dpc
    /\ UNCHANGED <<recordVars, createVars, displayExists, gpc, gPhase>>
    /\ UNCHANGED <<connVars, closeVars, uiVars, joinVars, cpc>>
    /\ UNCHANGED <<renderVars, wireVars, imageVars, atomVars, managerVars, workerVars, touchVars>>

\* detachSurface has returned: destroyX11Display(n) erases the display, whose
\* destructor calls detachSurface() again
TeardownDestroy ==
    /\ tpc = "inDetach"
    /\ dpc = "returned"
    /\ dpc' = "called"
    /\ tpc' = "inDtor"
    /\ UNCHANGED <<recordVars, createVars, displayExists, gpc, gPhase>>
    /\ UNCHANGED <<connVars, closeVars, uiVars, joinVars, cpc>>
    /\ UNCHANGED <<renderVars, wireVars, imageVars, atomVars, managerVars, workerVars, touchVars>>

\* the destructor's detachSurface has returned: the display is gone
TeardownDestroyed ==
    /\ tpc = "inDtor"
    /\ dpc = "returned"
    /\ displayExists' = FALSE
    /\ tpc' = "erase"
    /\ UNCHANGED <<recordVars, createVars, gpc, gPhase>>
    /\ UNCHANGED nonPhaseVars

\* displayStates().erase(displayNumber)
TeardownEraseState ==
    /\ tpc = "erase"
    /\ hasState' = FALSE
    /\ phase' = "None"
    /\ detachPending' = FALSE
    /\ tpc' = "idle"
    /\ UNCHANGED <<createVars, displayExists, gpc, gPhase>>
    /\ UNCHANGED nonPhaseVars

(***************************************************************************)
(* Image group: PutImage and GetImage on the framebuffer.  The client's    *)
(* window tree is fixed here: a top-level window as large as the           *)
(* framebuffer, and one mapped sub-window.  A stored pixel is a 32-bit     *)
(* word, written as its four bytes in the memory order of a little-endian  *)
(* host (all Android ABIs): the first is the least significant.            *)
(***************************************************************************)
ImageTopLevel == [wid |-> 2, w |-> SurfaceSize.w, h |-> SurfaceSize.h]
ImageSubWindow == [wid |-> 3, parent |-> 2, x |-> 2, y |-> 0, w |-> 1, h |-> 1]
ImageDrawables == {ImageTopLevel.wid, ImageSubWindow.wid}
\* the columns a one-pixel PutImage or GetImage names, relative to its
\* drawable
ImageColumns == {0, 2}
\* the four bytes of a pixel as the client writes them
PixelData == {<<1, 2, 3, 4>>, <<5, 6, 7, 8>>}
\* a uint32_t read from, and written to, four bytes in memory
WordOfBytes(b) == b
BytesOfWord(v) == v

\* pixel | 0xFF000000
ForceOpaque(v) == [v EXCEPT ![4] = 255]

\* a store that keeps the wire bytes in memory order for either byte order
StorePixelWireOrder(msb, b) == ForceOpaque(WordOfBytes(b))

\* the slow path's conversion of the four wire bytes to the stored word
StorePixel(msb, b) ==
    IF msb
      \* (b[1] << 24) | (b[2] << 16) | (b[3] << 8) | b[4]
      THEN ForceOpaque(<<b[4], b[3], b[2], b[1]>>)
      ELSE ForceOpaque(WordOfBytes(b))

\* PutImage of one pixel (y = 0, w = h = 1) at column x of a drawable
PutImageResult(msb, fb, drawable, x, b) ==
    LET isTopLevel == drawable = ImageTopLevel.wid
        \* a sub-window's coordinates are offset by getAbsolutePos
        dx == IF isTopLevel THEN x ELSE x + ImageSubWindow.x
        \* childClip: the mapped windows whose parent is the drawable
        hasClip == drawable = ImageSubWindow.parent
        clipped == /\ hasClip
                   /\ dx >= ImageSubWindow.x
                   /\ dx < ImageSubWindow.x + ImageSubWindow.w
        dW == ImageTopLevel.w
        fullyCovered == dx >= 0 /\ dx + 1 <= dW
    IN  IF fullyCovered /\ ~msb /\ ~hasClip
          THEN [fb EXCEPT ![dx + 1] = ForceOpaque(WordOfBytes(b))]
        ELSE IF fullyCovered /\ ~msb
          THEN IF clipped THEN fb
               ELSE [fb EXCEPT ![dx + 1] = ForceOpaque(WordOfBytes(b))]
        ELSE IF dx < 0 \/ dx >= dW \/ clipped THEN fb
        ELSE [fb EXCEPT ![dx + 1] = StorePixel(msb, b)]

\* GetImage of one pixel (y = 0, w = h = 1) at column gx of a drawable: the
\* four bytes of the reply's pixel data.  The source is the framebuffer
\* for every window (useShadow), read at gx.
GetImageResult(msb, fb, drawable, gx) ==
    LET srcW == ImageTopLevel.w
        fullyCovered == gx >= 0 /\ gx + 1 <= srcW
    IN  IF fullyCovered THEN BytesOfWord(fb[gx + 1])
        ELSE <<0, 0, 0, 0>>

\* the first byte of a connection request: 0x42, 0x6c, or another value
ByteOrderBytes == {66, 108, 0}

\* a connection request: its first byte, whether its 12 bytes arrive, and
\* whether the authorization name and data announced in it arrive
ConnectionRequests ==
    [byteOrder : ByteOrderBytes, complete : BOOLEAN, authComplete : BOOLEAN]

\* a write16 that ignores the byte order of the client
write16LsbOnly(msb, val) == <<val % 256, (val \div 256) % 256>>

write16(msb, val) ==
    IF msb THEN <<(val \div 256) % 256, val % 256>>
           ELSE <<val % 256, (val \div 256) % 256>>

write32(msb, val) ==
    IF msb THEN <<(val \div 16777216) % 256, (val \div 65536) % 256,
                  (val \div 256) % 256, val % 256>>
           ELSE <<val % 256, (val \div 256) % 256, (val \div 65536) % 256,
                  (val \div 16777216) % 256>>

\* sendConnectionReply: the bytes written to the socket, for a surface of
\* width x height
sendConnectionReply(msb, width, height) ==
    \* reply header: accepted, pad, major 11, minor 0, length 28 words
    <<1, 0>> \o write16(msb, 11) \o write16(msb, 0) \o write16(msb, 28)
    \* release, resource-id base 0x00200000 and mask 0x001FFFFF,
    \* motion-buffer size, vendor length
    \o write32(msb, 0) \o write32(msb, 2097152) \o write32(msb, 2097151)
    \o write32(msb, 256) \o write16(msb, 0)
    \* maximum request length, screens, formats, image byte order, bitmap
    \* bit order, scanline unit and pad, keycodes, pad
    \o write16(msb, 32767)
    \o <<1, 1, IF msb THEN 1 ELSE 0, IF msb THEN 1 ELSE 0, 8, 8, 8, 255,
         0, 0, 0, 0>>
    \* pixmap format
    \o <<24, 32>> \o write16(msb, 32) \o <<0, 0, 0, 0>>
    \* root window: id, colormap, white pixel, black pixel, input masks,
    \* size in pixels and millimetres, installed maps, visual
    \o write32(msb, 1) \o write32(msb, 1) \o write32(msb, 16777215)
    \o write32(msb, 0) \o write32(msb, 0)
    \o write16(msb, width) \o write16(msb, height)
    \o write16(msb, (width * 254) \div 100)
    \o write16(msb, (height * 254) \div 100)
    \o write16(msb, 0) \o write16(msb, 0) \o write32(msb, 33)
    \o <<0, 0, 24, 1>>
    \* depth and visual type
    \o <<24, 0>> \o write16(msb, 1) \o <<0, 0, 0, 0>>
    \o write32(msb, 33) \o <<4, 32>> \o write16(msb, 256)
    \o write32(msb, 16711680) \o write32(msb, 65280) \o write32(msb, 255)
    \o <<0, 0, 0, 0>>

\* the connection setup: without the 12 bytes of the request the socket is
\* closed; otherwise the byte order is taken from the first byte, the
\* authorization bytes are skipped (the result of reading them is not
\* looked at) and the reply is written
HandshakeResult(req, msb) ==
    IF ~req.complete
      THEN [msbFirst |-> msb, reply |-> <<>>, open |-> FALSE]
      ELSE [msbFirst |-> req.byteOrder = 66,
            reply |-> sendConnectionReply(req.byteOrder = 66,
                                          surface.w, surface.h),
            open |-> TRUE]

ImageInit ==
    /\ handshake = [request |-> [byteOrder |-> 0, complete |-> FALSE,
                                 authComplete |-> FALSE],
                    reply |-> <<>>, open |-> FALSE]
    /\ msbFirst = TRUE
    /\ surface = SurfaceSize
    /\ framebuffer = FilledVector(SurfaceSize.w * SurfaceSize.h)

\* the connection of a client: the request read, the setup reply written
\* and whether the request loop is entered with the socket open
ImageHandshake ==
    /\ \E req \in ConnectionRequests :
          LET r == HandshakeResult(req, msbFirst)
          IN  /\ msbFirst' = r.msbFirst
              /\ handshake' = [request |-> req, reply |-> r.reply,
                               open |-> r.open]
    /\ UNCHANGED <<framebuffer, surface>>
    /\ UNCHANGED nonImageVars

\* a pass of the request loop that reads a PutImage
ImagePutImage ==
    /\ handshake.open
    /\ \E drawable \in ImageDrawables : \E x \in ImageColumns :
       \E b \in PixelData :
          framebuffer' = PutImageResult(msbFirst, framebuffer, drawable, x, b)
    /\ UNCHANGED <<msbFirst, handshake, surface>>
    /\ UNCHANGED nonImageVars

NextImage ==
    \/ ImageHandshake
    \/ ImagePutImage

(***************************************************************************)
(* Atom group: the atom table, InternAtom and GetAtomName.  A name is the  *)
(* sequence of its bytes; atomReply is the request last served and the     *)
(* value its reply carries.                                                *)
(***************************************************************************)
\* the longest name InternAtom copies out of the request
MaxNameLen == 256
ShortNames == {<<"F">>, <<"F", "O">>, <<"B">>}
LongName == [i \in 1..(MaxNameLen + 1) |-> "A"]
\* the names a client sends: nameLen is 0, within the limit, or above it
WireNames == ShortNames \cup {<<>>, LongName}
\* the atom ids a client asks the name of
WireAtomIds == 0..4

AtomTable ==
    [atomNameToId |-> atomNameToId, atomIdToName |-> atomIdToName,
     nextAtomId |-> nextAtomId]

\* an InternAtom that creates the atom whatever only_if_exists says
InternAtomAlwaysCreates(tb, onlyIfExists, wireName) ==
    LET name == IF Len(wireName) > 0 /\ Len(wireName) <= MaxNameLen
                  THEN wireName ELSE <<>>
    IN  IF name \in DOMAIN tb.atomNameToId
          THEN [atomId |-> tb.atomNameToId[name], table |-> tb]
        ELSE IF name # <<>>
          THEN [atomId |-> tb.nextAtomId,
                table |->
                  [atomNameToId |-> tb.atomNameToId @@ (name :> tb.nextAtomId),
                   atomIdToName |-> tb.atomIdToName @@ (tb.nextAtomId :> name),
                   nextAtomId |-> tb.nextAtomId + 1]]
        ELSE [atomId |-> 0, table |-> tb]

\* InternAtom: the atom id of the reply and the table afterwards
InternAtomResult(tb, onlyIfExists, wireName) ==
    LET name == IF Len(wireName) > 0 /\ Len(wireName) <= MaxNameLen
                  THEN wireName ELSE <<>>
    IN  IF name \in DOMAIN tb.atomNameToId
          THEN [atomId |-> tb.atomNameToId[name], table |-> tb]
        ELSE IF ~onlyIfExists /\ name # <<>>
          THEN [atomId |-> tb.nextAtomId,
                table |->
                  [atomNameToId |-> tb.atomNameToId @@ (name :> tb.nextAtomId),
                   atomIdToName |-> tb.atomIdToName @@ (tb.nextAtomId :> name),
                   nextAtomId |-> tb.nextAtomId + 1]]
        ELSE [atomId |-> 0, table |-> tb]

\* GetAtomName: the name of the reply, empty for an unknown id
GetAtomNameResult(tb, atomId) ==
    IF atomId \in DOMAIN tb.atomIdToName THEN tb.atomIdToName[atomId] ELSE <<>>

AtomInit ==
    /\ atomNameToId = <<>>
    /\ atomIdToName = <<>>
    /\ nextAtomId = 1
    /\ atomReply = [op |-> "none"]

\* a pass of the request loop that reads an InternAtom
AtomInternAtom ==
    \E onlyIfExists \in BOOLEAN : \E wireName \in WireNames :
       LET r == InternAtomResult(AtomTable, onlyIfExists, wireName)
       IN  /\ atomNameToId' = r.table.atomNameToId
           /\ atomIdToName' = r.table.atomIdToName
           /\ nextAtomId' = r.table.nextAtomId
           /\ atomReply' = [op |-> "InternAtom", onlyIfExists |-> onlyIfExists,
                            name |-> wireName, atomId |-> r.atomId]
           /\ UNCHANGED nonAtomVars

\* a pass of the request loop that reads a GetAtomName
AtomGetAtomName ==
    \E atomId \in WireAtomIds :
       /\ atomReply' = [op |-> "GetAtomName", atomId |-> atomId,
                        name |-> GetAtomNameResult(AtomTable, atomId)]
       /\ UNCHANGED <<atomNameToId, atomIdToName, nextAtomId>>
       /\ UNCHANGED nonAtomVars

\* the client goes away and the next one is accepted: the window tables
\* and the pixmaps are cleared, the atom table is not touched
AtomReconnect ==
    /\ atomReply' = [op |-> "accept"]
    /\ UNCHANGED <<atomNameToId, atomIdToName, nextAtomId>>
    /\ UNCHANGED nonAtomVars

NextAtom ==
    \/ AtomInternAtom
    \/ AtomGetAtomName
    \/ AtomReconnect

(***************************************************************************)
(* Wire group: the request loop of serverLoop, one request per step.       *)
(***************************************************************************)
\* a request header as the 32-bit word the client writes (LSB first):
\* opcode, data byte, 16-bit length in words
Hdr(op, minor, len) == op + 256 * minor + 65536 * len

\* opcode = buf[0]; the data byte buf[1]; length = read16(buf, 2)
OpcodeOf(w) == w % 256
MinorOf(w) == (w \div 256) % 256
LengthOf(w) == (w \div 65536) % 65536

\* the opcodes the client's requests are drawn from: DestroyWindow,
\* GetGeometry, ChangeProperty, QueryPointer, PutImage, GLX, an unknown one
WireOpcodes == {4, 14, 18, 38, 72, 128, 200}
\* glXRender (void) and glXQueryVersion (reply)
WireGLXMinors == {1, 7}
\* 16-bit lengths: header only, one and two body words, a PutImage with one
\* pixel word, and a body of more than 65536 bytes (within the 32767 words
\* sendConnectionReply advertises as the maximum request length)
WireLengths == {1, 2, 3, 7, 16386}
\* 32-bit extended lengths of BigRequests-framed requests
WireBigLengths == {2, 3}
\* body words: the zero word, a word that reads as "GetGeometry, length 1",
\* and a word that reads as "GetGeometry, length 16386"
WireFills == {0, Hdr(14, 0, 1), Hdr(14, 0, 16386)}

WireRequests ==
    { r \in [op : WireOpcodes, minor : {0} \cup WireGLXMinors,
             len : {0} \cup WireLengths, ext : {0} \cup WireBigLengths,
             fill : WireFills] :
        /\ (r.op = 128) = (r.minor # 0)
        /\ (r.len = 0) = (r.ext # 0)
        /\ (r.len = 1 \/ r.ext = 2) => r.fill = 0
        \* a DestroyWindow is at most 7 words long here, and only the
        \* longest bodies hold the word that reads as a long request
        /\ r.op = 4 => r.len # 16386
        /\ (r.len = 16386) = (r.fill = Hdr(14, 0, 16386)) }

\* the number of words the client writes for a request
ReqWords(r) == IF r.len = 0 THEN r.ext ELSE r.len

RECURSIVE StreamWords(_)
StreamWords(s) == IF s = <<>> THEN 0 ELSE ReqWords(Head(s)) + StreamWords(Tail(s))

\* the i-th word (from 0) of the byte stream
RECURSIVE WordAt(_, _)
WordAt(s, i) ==
    IF s = <<>> THEN 0
    ELSE LET r == Head(s) IN
         IF i >= ReqWords(r) THEN WordAt(Tail(s), i - ReqWords(r))
         ELSE IF i = 0 THEN Hdr(r.op, r.minor, r.len)
         ELSE IF r.len = 0 /\ i = 1 THEN r.ext
         ELSE r.fill

\* the opcodes whose handlers call sendReply
ReplyOpcodes ==
    {3, 14, 15, 16, 17, 20, 21, 23, 26, 31, 38, 39, 40, 43, 44, 47, 49, 52,
     73, 83, 84, 91, 97, 98, 100, 102, 103, 104, 106}

\* the GLX sub-opcodes handled without a reply; every other one is answered
GLXVoidMinors == {1, 2, 3, 4, 8, 9, 10, 11, 18, 20, 21, 22}

\* the switch on the opcode: does the handler send a reply?
HasReply(op, minor) ==
    \/ op \in ReplyOpcodes
    \/ op = 128 /\ minor \notin GLXVoidMinors

\* the generic body read: extra = (length - 1) * 4, capped at 65536 bytes
GenericBodyWords(len) ==
    LET extra == (len - 1) * 4
    IN  (IF extra > 65536 THEN 65536 ELSE extra) \div 4

\* the words one pass of the request loop reads, from the header word w0
\* and the word w1 that follows it
ConsumedWords(w0, w1) ==
    LET op == OpcodeOf(w0)
        len == LengthOf(w0)
    IN  IF len = 0 THEN 2 + (IF w1 > 2 THEN w1 - 2 ELSE 0)
        ELSE IF op = 72 THEN 1 + 5 + (IF len >= 6 THEN len - 6 ELSE 0)
        ELSE IF op \in {2, 38} THEN 1 + (IF len > 1 THEN len - 1 ELSE 0)
        ELSE IF op = 4 THEN 1 + 1
        ELSE 1 + GenericBodyWords(len)

\* does the pass answer with a reply?  BigRequests-framed requests and
\* PutImage continue the loop before the switch
SendsReply(w0) ==
    /\ LengthOf(w0) # 0
    /\ OpcodeOf(w0) # 72
    /\ HasReply(OpcodeOf(w0), MinorOf(w0))

WireInit ==
    /\ stream = <<>>
    /\ wpos = 0
    /\ seq = 0
    /\ replies = <<>>
    /\ lastReplySeq = 0
    /\ stamped = <<>>

\* the client writes one more request
ClientSendsRequest ==
    /\ Len(stream) < MaxRequests
    /\ \E r \in WireRequests : stream' = Append(stream, r)
    /\ UNCHANGED <<wpos, seq, replies, lastReplySeq, stamped>>
    /\ UNCHANGED nonWireVars

\* one pass of the request loop: header, body, seq++, dispatch, reply.  The
\* pass waits in recvAll until the client has written the bytes it reads.
ServerRequest ==
    /\ wpos < StreamWords(stream)
    /\ LET w0 == WordAt(stream, wpos)
           w1 == WordAt(stream, wpos + 1)
           n  == ConsumedWords(w0, w1)
       IN  /\ wpos + n <= StreamWords(stream)
           /\ wpos' = wpos + n
           /\ seq' = (seq + 1) % 65536
           /\ IF SendsReply(w0)
                THEN /\ replies' = Append(replies, seq')
                     /\ lastReplySeq' = seq'
                ELSE UNCHANGED <<replies, lastReplySeq>>
    /\ UNCHANGED <<stream, stamped>>
    /\ UNCHANGED nonWireVars

\* a synthesized event (Expose, ConfigureNotify, DestroyNotify, MotionNotify,
\* ButtonPress, ButtonRelease) is written between two requests:
\* write16(evt, 2, lastReplySeq_.load())
WireSendEvent ==
    /\ Len(stamped) < MaxEvents
    /\ stamped' = Append(stamped, lastReplySeq)
    /\ UNCHANGED <<stream, wpos, seq, replies, lastReplySeq>>
    /\ UNCHANGED nonWireVars

\* the client disconnects after its requests have been read and the next
\* client is accepted: uint16_t seq = 0 for the new request loop;
\* lastReplySeq_ is a member of the display and is left as it is
WireReconnect ==
    /\ stream # <<>>
    /\ wpos = StreamWords(stream)
    /\ stream' = <<>>
    /\ wpos' = 0
    /\ seq' = 0
    /\ replies' = <<>>
    /\ stamped' = <<>>
    /\ UNCHANGED lastReplySeq
    /\ UNCHANGED nonWireVars

NextWire ==
    \/ ClientSendsRequest
    \/ ServerRequest

\* the request stream of one client after another, with synthesized events
\* sent between the requests
NextEvents ==
    \/ ClientSendsRequest
    \/ ServerRequest
    \/ WireSendEvent
    \/ WireReconnect

\* nativeAttachSurfaceToDisplay after a teardown, attachSurface succeeding:
\* the record is set to Attached with detachPending = false, and
\* getOrCreateX11Display makes a new display instance
NativeAttachSurfaceToDisplay ==
    /\ tpc = "idle"
    /\ ~displayExists
    /\ hasState' = TRUE
    /\ phase' = "Attached"
    /\ detachPending' = FALSE
    /\ displayExists' = TRUE
    /\ UNCHANGED <<createVars, gpc, gPhase, tpc>>
    \* the state of the new instance, as in Init
    /\ fbWrites' = 0
    /\ rbWrites' = 0
    /\ dirty' = TRUE
    /\ bufferMutex' = "free"
    /\ renderThreadRunning' = TRUE
    /\ renderThreadExited' = FALSE
    /\ glInited' = FALSE
    /\ rpc' = "loop"
    /\ wpc' = "idle"
    /\ wop' = "none"
    /\ running' = TRUE
    /\ serverFd' = -1
    /\ clientFd' = -1
    /\ spc' = "start"
    /\ clientState' = "none"
    /\ closingGracefully' = FALSE
    /\ destroyNotifySent' = FALSE
    /\ closeElapsed' = FALSE
    /\ detachDeferred' = FALSE
    /\ childWindows' = <<>>
    /\ sockAccess' = {}
    /\ pluginUIRunning' = TRUE
    /\ ppc' = "loop"
    /\ pluginUITasks' = <<>>
    /\ taskDone' = {}
    /\ sub' = [s \in Submitters |-> "idle"]
    /\ dpc' = "idle"
    /\ cpc' = "idle"
    /\ pluginUIThreadJoinable' = TRUE
    /\ serverThreadJoinable' = TRUE
    /\ renderThreadJoinable' = TRUE
    /\ window' = "surface"
    /\ stream' = <<>>
    /\ wpos' = 0
    /\ seq' = 0
    /\ replies' = <<>>
    /\ lastReplySeq' = 0
    /\ stamped' = <<>>
    /\ handshake' = [request |-> [byteOrder |-> 0, complete |-> FALSE,
                                  authComplete |-> FALSE],
                     reply |-> <<>>, open |-> FALSE]
    /\ msbFirst' = TRUE
    /\ surface' = SurfaceSize
    /\ framebuffer' = FilledVector(SurfaceSize.w * SurfaceSize.h)
    /\ atomNameToId' = <<>>
    /\ atomIdToName' = <<>>
    /\ nextAtomId' = 1
    /\ atomReply' = [op |-> "none"]
    /\ UNCHANGED <<managerVars, workerVars>>
    /\ touchQueue' = <<>>
    /\ touchLogCount' = 0
    /\ pending' = <<>>
    /\ grabWindow' = 0
    /\ hasPendingDrag' = FALSE
    /\ pendingDragX' = 0
    /\ pendingDragY' = 0
    /\ pointerButton1Down' = FALSE
    /\ windowSizes' = <<>>
    /\ windowPositions' = <<>>
    /\ unmappedWindows' = {}
    /\ pluginWidth' = 0
    /\ pluginHeight' = 0
    /\ originalChild' = [w |-> 0, h |-> 0]
    /\ pixmaps' = <<>>
    /\ pointerEvents' = <<>>

\* the display life cycle driven from the JNI bridge: a creating thread, a
\* thread signalling detach, and a thread tearing the display down
NextPhase ==
    \/ NativeAttachSurfaceToDisplay
    \/ NativeBeginCreatePluginUI
    \/ NativeCreatePluginUI
    \/ CreateReadPending
    \/ CreateHonorDetach
    \/ CreateSetNone
    \/ CreateReturn
    \/ SignalReadPhase
    \/ SignalApply
    \/ TeardownReadPhase
    \/ TeardownSetDestroying
    \/ TeardownCallDetach
    \/ DetachEnter
    \/ DetachSignal
    \/ DetachStopPluginUI
    \/ TeardownDestroy
    \/ TeardownDestroyed
    \/ TeardownEraseState

\* the touch queue alone: the protocol thread serving a client that sends no
\* window request, while the host injects touches
NextQueue ==
    \/ ServerListen
    \/ ServerOuterTop
    \/ ClientConnects
    \/ ServerAccept
    \/ ServerAcceptFails
    \/ ServerSetup
    \/ ServerInnerTop
    \/ ServerDrainSwap
    \/ ServerDrainTouch
    \/ ServerDrainFlush
    \/ ServerPoll
    \/ ServerCloseClient
    \/ ServerCloseListen
    \/ InjectTouch

\* the window tables alone: the protocol thread serving a client that
\* creates, maps, unmaps and destroys windows; no touch is injected
NextWindows ==
    \/ ServerListen
    \/ ServerOuterTop
    \/ ClientConnects
    \/ ServerAccept
    \/ ServerAcceptFails
    \/ ServerSetup
    \/ ServerInnerTop
    \/ ServerDrainSwap
    \/ ServerDrainFlush
    \/ ServerPoll
    \/ ServerCreateWindow
    \/ ServerMapWindow
    \/ ServerUnmapWindow
    \/ ServerDestroyWindow
    \/ ServerCloseClient
    \/ ServerCloseListen

\* a client that creates, maps and unmaps up to MaxStackedWindows windows
\* and destroys none
NextStacking ==
    \/ ServerListen
    \/ ServerOuterTop
    \/ ClientConnects
    \/ ServerAccept
    \/ ServerAcceptFails
    \/ ServerSetup
    \/ ServerInnerTop
    \/ ServerDrainSwap
    \/ ServerDrainFlush
    \/ ServerPoll
    \/ StackCreateWindow
    \/ StackMapWindow
    \/ StackUnmapWindow
    \/ ServerCloseClient
    \/ ServerCloseListen

\* moving and resizing windows: the protocol thread serving a client that
\* creates, configures and destroys windows
NextConfigure ==
    \/ ServerListen
    \/ ServerOuterTop
    \/ ClientConnects
    \/ ServerAccept
    \/ ServerAcceptFails
    \/ ServerSetup
    \/ ServerInnerTop
    \/ ServerDrainSwap
    \/ ServerDrainFlush
    \/ ServerPoll
    \/ ServerCreateWindow
    \/ ServerConfigureWindow
    \/ ServerDestroyWindow
    \/ ServerCloseClient
    \/ ServerCloseListen

\* int fw = pluginWidth > 0 ? pluginWidth : width (and fh likewise)
EffectiveWidth == IF pluginWidth > 0 THEN pluginWidth ELSE surface.w
EffectiveHeight == IF pluginHeight > 0 THEN pluginHeight ELSE surface.h

\* the ids the client gives its pixmaps, and their sizes
PixmapIds == {9}
PixmapExtents == {<<3, 2>>}

\* the PutImage requests the client sends: a row of pixels (h = 1, w the
\* number of pixels) at a point of a drawable, the root window included
PutImagePoints == {<<2, 1>>}
PutImagePixels == {<< <<1, 2, 3, 4>> >>}
PutImageRequests ==
    [drawable : {1} \cup WindowIds \cup PixmapIds, at : PutImagePoints,
     data : PutImagePixels]

\* the PutImage handler on the window tables for a client of byte order
\* msb: the framebuffer, the pixmaps and the dirty flag after the request
PutImageOnTables(msb, req) ==
    LET drawable == req.drawable
        w == Len(req.data)
        inChildWindows == drawable \in Range(childWindows)
        isWindow0 == inChildWindows \/ drawable = 1
        isTopLevel == \/ ~inChildWindows /\ drawable = 1
                      \/ isWindow0 /\ childWindows # <<>>
                            /\ drawable = childWindows[1]
        \* Skip PutImage for unmapped (hidden) windows
        isWindow == isWindow0 /\ ~(~isTopLevel /\ drawable \in unmappedWindows)
        absPos == IF isWindow /\ ~isTopLevel THEN getAbsolutePos(drawable)
                                             ELSE <<0, 0>>
        x == req.at[1] + absPos[1]
        y == req.at[2] + absPos[2]
        childClip == {cw \in DOMAIN windowPositions :
                         /\ isWindow
                         /\ windowPositions[cw].parent = drawable
                         /\ cw \notin unmappedWindows
                         /\ cw \in DOMAIN windowSizes}
        clipped(col) == \E cw \in childClip :
                           LET c == getAbsolutePos(cw) IN
                           /\ x + col >= c[1]
                           /\ x + col < c[1] + windowSizes[cw].w
                           /\ y >= c[2] /\ y < c[2] + windowSizes[cw].h
        toFramebuffer ==
            isWindow /\ Len(framebuffer) = EffectiveWidth * EffectiveHeight
        toPixmap == ~toFramebuffer /\ drawable \in DOMAIN pixmaps
        dW == IF toFramebuffer THEN EffectiveWidth
              ELSE IF toPixmap THEN pixmaps[drawable].w ELSE 0
        dH == IF toFramebuffer THEN EffectiveHeight
              ELSE IF toPixmap THEN pixmaps[drawable].h ELSE 0
        hasDst == toFramebuffer \/ toPixmap
        fullyCovered == x >= 0 /\ y >= 0 /\ x + w <= dW /\ y + 1 <= dH
        inside(col) == y >= 0 /\ y < dH /\ x + col >= 0 /\ x + col < dW
        \* the fast path, the fast path with child clipping, the slow path
        written(col) ==
            IF fullyCovered /\ ~msb /\ childClip = {} THEN TRUE
            ELSE IF fullyCovered /\ ~msb THEN ~clipped(col)
            ELSE inside(col) /\ ~clipped(col)
        value(col) ==
            IF fullyCovered /\ ~msb
              THEN ForceOpaque(WordOfBytes(req.data[col + 1]))
              ELSE StorePixel(msb, req.data[col + 1])
        drawn(buf) ==
            [i \in 1..Len(buf) |->
               IF \E col \in 0..(w - 1) :
                     written(col) /\ i = y * dW + x + col + 1
                 THEN value(CHOOSE col \in 0..(w - 1) :
                               written(col) /\ i = y * dW + x + col + 1)
                 ELSE buf[i]]
    IN  [framebuffer |->
            IF toFramebuffer THEN drawn(framebuffer) ELSE framebuffer,
         pixmaps |->
            IF toPixmap
              THEN [pixmaps EXCEPT
                      ![drawable].pixels = drawn(pixmaps[drawable].pixels)]
              ELSE pixmaps,
         dirty |-> IF hasDst /\ isWindow THEN TRUE ELSE dirty]

\* a pass that reads the PutImage req
PutImageStep(req) ==
    /\ spc = "poll"
    /\ bufferMutex = "free"
    /\ LET r == PutImageOnTables(msbFirst, req) IN
          /\ framebuffer' = r.framebuffer
          /\ pixmaps' = r.pixmaps
          /\ dirty' = r.dirty
    /\ spc' = "drainAfter"
    /\ sockAccess' = sockAccess \cup {"server"}
    /\ UNCHANGED <<running, serverFd, clientFd, clientState, childWindows,
                   destroyNotifySent>>
    /\ UNCHANGED <<closeVars, uiVars, joinVars, dpc, cpc>>
    /\ UNCHANGED <<renderThreadRunning, renderThreadExited, glInited, rpc>>
    /\ UNCHANGED <<msbFirst, handshake, surface>>
    /\ UNCHANGED <<paintVars, phaseVars, wireVars, atomVars, managerVars, workerVars>>
    /\ UNCHANGED <<touchQueue, touchLogCount, pointerVars, pointerEvents,
                   windowSizes, windowPositions, unmappedWindows, pluginWidth,
                   pluginHeight, originalChild>>

\* a pass that reads a PutImage
ServerPutImage == \E req \in PutImageRequests : PutImageStep(req)

\* what the protocol thread leaves alone in a pass that reads a pixmap
\* request
PixmapPassFrame ==
    /\ spc' = "drainAfter"
    /\ sockAccess' = sockAccess \cup {"server"}
    /\ UNCHANGED <<running, serverFd, clientFd, clientState, childWindows,
                   destroyNotifySent>>
    /\ UNCHANGED <<closeVars, uiVars, joinVars, dpc, cpc>>
    /\ UNCHANGED <<renderThreadRunning, renderThreadExited, glInited, rpc>>
    /\ UNCHANGED <<msbFirst, handshake, surface>>
    /\ UNCHANGED <<paintVars, phaseVars, wireVars, atomVars, managerVars, workerVars>>
    /\ UNCHANGED <<touchQueue, touchLogCount, pointerVars, pointerEvents,
                   windowSizes, windowPositions, unmappedWindows, pluginWidth,
                   pluginHeight, originalChild>>

\* case 53, CreatePixmap: pd.pixels.resize(pw * ph, 0xFF302020);
\* pixmaps[pid] = pd
ServerCreatePixmap ==
    /\ spc = "poll"
    /\ \E pid \in PixmapIds : \E ext \in PixmapExtents :
          pixmaps' = [id \in DOMAIN pixmaps \cup {pid} |->
                        IF id = pid
                          THEN [w |-> ext[1], h |-> ext[2],
                                pixels |-> FilledVector(ext[1] * ext[2])]
                          ELSE pixmaps[id]]
    /\ UNCHANGED <<framebuffer, dirty>>
    /\ PixmapPassFrame

\* case 54, FreePixmap: pixmaps.erase(pid)
ServerFreePixmap ==
    /\ spc = "poll"
    /\ \E pid \in PixmapIds :
          pixmaps' = [id \in DOMAIN pixmaps \ {pid} |-> pixmaps[id]]
    /\ UNCHANGED <<framebuffer, dirty>>
    /\ PixmapPassFrame

\* the CopyArea requests the client sends: one pixel (width = height = 1)
\* from a point of a drawable to a point of a drawable
CopyAreaSources == {<<2, 1>>, <<7, 7>>}
CopyAreaTargets == {<<0, 0>>}
CopyAreaRequests ==
    [src : {1} \cup WindowIds \cup PixmapIds,
     dst : {1} \cup WindowIds \cup PixmapIds,
     srcAt : CopyAreaSources, dstAt : CopyAreaTargets]

\* what a read past the end of the framebuffer vector can yield
IndeterminatePixels == {BackgroundPixel, <<0, 0, 0, 0>>}

\* case 62, CopyArea, on the window tables: the framebuffer, the pixmaps
\* and the dirty flag after the request.  A window is read and written
\* through the framebuffer whenever that is non-empty, with the effective
\* size as its width and height; stray is the value of a read past the end
\* of the vector, and a write past its end changes no element of it.
CopyAreaOnTables(req, stray) ==
    LET isWin(d) == d = 1 \/ d \in Range(childWindows)
        viaFb(d) == isWin(d) /\ framebuffer # <<>>
        viaPix(d) == ~viaFb(d) /\ d \in DOMAIN pixmaps
        wOf(d) == IF viaFb(d) THEN EffectiveWidth
                  ELSE IF viaPix(d) THEN pixmaps[d].w ELSE 0
        hOf(d) == IF viaFb(d) THEN EffectiveHeight
                  ELSE IF viaPix(d) THEN pixmaps[d].h ELSE 0
        bufOf(d) == IF viaFb(d) THEN framebuffer ELSE pixmaps[d].pixels
        offset(d) == IF isWin(d) /\ d # 1
                        /\ (childWindows = <<>> \/ d # childWindows[1])
                       THEN getAbsolutePos(d) ELSE <<0, 0>>
        sx == req.srcAt[1] + offset(req.src)[1]
        sy == req.srcAt[2] + offset(req.src)[2]
        dx == req.dstAt[1] + offset(req.dst)[1]
        dy == req.dstAt[2] + offset(req.dst)[2]
        resolved == (viaFb(req.src) \/ viaPix(req.src))
                       /\ (viaFb(req.dst) \/ viaPix(req.dst))
        copied == /\ resolved
                  /\ sy >= 0 /\ sy < hOf(req.src) /\ dy >= 0 /\ dy < hOf(req.dst)
                  /\ sx >= 0 /\ sx < wOf(req.src) /\ dx >= 0 /\ dx < wOf(req.dst)
        si == sy * wOf(req.src) + sx + 1
        di == dy * wOf(req.dst) + dx + 1
        value == IF si <= Len(bufOf(req.src)) THEN bufOf(req.src)[si] ELSE stray
        stored(buf) == IF di <= Len(buf) THEN [buf EXCEPT ![di] = value] ELSE buf
    IN  [framebuffer |->
            IF copied /\ viaFb(req.dst) THEN stored(framebuffer) ELSE framebuffer,
         pixmaps |->
            IF copied /\ viaPix(req.dst)
              THEN [pixmaps EXCEPT
                      ![req.dst].pixels = stored(pixmaps[req.dst].pixels)]
              ELSE pixmaps,
         dirty |-> IF resolved /\ isWin(req.dst) THEN TRUE ELSE dirty]

\* a pass that reads a CopyArea
ServerCopyArea ==
    /\ spc = "poll"
    /\ bufferMutex = "free"
    /\ \E req \in CopyAreaRequests : \E stray \in IndeterminatePixels :
          LET r == CopyAreaOnTables(req, stray) IN
          /\ framebuffer' = r.framebuffer
          /\ pixmaps' = r.pixmaps
          /\ dirty' = r.dirty
    /\ PixmapPassFrame

\* graceful teardown: the protocol thread serving a client that creates
\* windows, the host injecting touches, and detachSurface up to the return
\* of its signalDetach call
NextTeardown ==
    \/ ServerListen
    \/ ServerOuterTop
    \/ ClientConnects
    \/ ServerAccept
    \/ ServerAcceptFails
    \/ ServerSetup
    \/ ServerInnerTop
    \/ ServerClosing
    \/ CloseTimerExpires
    \/ ServerDrainSwap
    \/ ServerDrainTouch
    \/ ServerDrainFlush
    \/ ServerPoll
    \/ ServerCreateWindow
    \/ ServerCloseClient
    \/ ServerCloseListen
    \/ InjectTouch
    \/ HostDetach
    \/ DetachEnter
    \/ DetachSignal

\* the framebuffer: the protocol thread serving a client that creates, maps,
\* unmaps and resizes windows and draws into them, while the host reports
\* surface size changes
NextFrame ==
    \/ ServerListen
    \/ ServerOuterTop
    \/ ClientConnects
    \/ ServerAccept
    \/ ServerAcceptFails
    \/ ServerSetup
    \/ ServerInnerTop
    \/ ServerDrainSwap
    \/ ServerDrainFlush
    \/ ServerPoll
    \/ ServerCreateWindow
    \/ ServerConfigureWindow
    \/ ServerGetGeometry
    \/ ServerSubwindows
    \/ ServerMapWindow
    \/ ServerUnmapWindow
    \/ ServerPutImage
    \/ ServerCloseClient
    \/ ServerCloseListen
    \/ SetSurfaceSize

\* pixmaps: the protocol thread serving a client that creates and resizes
\* windows, creates and frees pixmaps, draws and copies between drawables, while the
\* host reports surface size changes
NextPixmap ==
    \/ ServerListen
    \/ ServerOuterTop
    \/ ClientConnects
    \/ ServerAccept
    \/ ServerAcceptFails
    \/ ServerSetup
    \/ ServerInnerTop
    \/ ServerDrainSwap
    \/ ServerDrainFlush
    \/ ServerPoll
    \/ ServerCreateWindow
    \/ ServerResizeWindow
    \/ ServerCreatePixmap
    \/ ServerFreePixmap
    \/ ServerCopyArea
    \/ ServerPutImage
    \/ ServerCloseClient
    \/ ServerCloseListen
    \/ SetSurfaceSize

NextRender ==
    \/ ServerLockBuffer
    \/ ServerWriteWindow
    \/ ServerSetDirty
    \/ ServerUnlockBuffer
    \/ RenderLoopTop
    \/ RenderWait
    \/ RenderCheckRunning
    \/ RenderCheckDirty
    \/ RenderMakeCurrent
    \/ RenderInitGL
    \/ RenderLockBuffer
    \/ RenderSnapshot
    \/ RenderClearDirty
    \/ RenderDraw
    \/ RenderSwap
    \/ RenderExit

(***************************************************************************)
(* Manager group: PluginUIManager over a PluginChain.  The host thread     *)
(* creates plugin UIs, removes plugins and reorders the chain; a display's *)
(* plugin-UI thread runs the idle callback registered on it.  Every        *)
(* operation holds uiMutex_ (and the chain its chainMutex_) for its        *)
(* effect on the tables.                                                   *)
(***************************************************************************)
\* the displays the host creates plugin UIs on
DisplayNumbers == {0, 1}

\* a default-constructed UIEntry
NoEntry == [ui |-> 0, displayNumber |-> -1, pluginIndex |-> 0]

ManagerInit ==
    /\ chain = [i \in 1..MaxPlugins |-> i]
    /\ uiEntries = <<>>
    /\ uiObjects = <<>>
    /\ idleCallback = [d \in DisplayNumbers |-> 0]
    /\ idled = [display |-> -1, ui |-> 0]

\* uiEntries_.resize(n) when the vector is shorter than n
ResizedEntries(es, n) ==
    IF Len(es) >= n THEN es ELSE es \o [i \in 1..(n - Len(es)) |-> NoEntry]

\* std::vector erase(begin + from) followed by insert(begin + to, elem),
\* with 0-based from and to
MovedSeq(q, from, to) ==
    LET elem == q[from + 1]
        rest == [i \in 1..(Len(q) - 1) |-> IF i <= from THEN q[i] ELSE q[i + 1]]
    IN  [i \in 1..Len(q) |->
           IF i <= to THEN rest[i] ELSE IF i = to + 1 THEN elem ELSE rest[i - 1]]

\* the shared index/detached pairs the slots of uiEntries_ point to
ReferencedObjects(es) ==
    {es[i].pluginIndex : i \in 1..Len(es)} \ {0}

\* destroyPluginUI(pluginIndex): the UI of the slot is moved out and
\* destroyed, the slot's display number set to -1 and the idle callback of
\* that display cleared
DestroyPluginUIResult(pluginIndex) ==
    IF pluginIndex >= 0 /\ pluginIndex < Len(uiEntries)
      THEN LET e == uiEntries[pluginIndex + 1] IN
           [uiEntries |-> [uiEntries EXCEPT ![pluginIndex + 1] =
                              [e EXCEPT !.ui = 0, !.displayNumber = -1]],
            idleCallback |-> IF e.displayNumber >= 0
                               THEN [idleCallback EXCEPT ![e.displayNumber] = 0]
                               ELSE idleCallback]
      ELSE [uiEntries |-> uiEntries, idleCallback |-> idleCallback]

\* createPluginUI(pluginIndex, displayNumber): any UI in the slot is
\* destroyed; if the chain has a plugin at the index and instantiate
\* succeeds, the new UI is stored in slot pluginIndex with a fresh shared
\* index holding pluginIndex, and its closure becomes the idle callback of
\* the display.  The host uses a display for one UI at a time.
CreatePluginUI ==
    /\ Len(uiObjects) < MaxUIs
    /\ \E pluginIndex \in 0..(MaxPlugins - 1) :
       \E displayNumber \in DisplayNumbers : \E ok \in BOOLEAN :
          LET d == DestroyPluginUIResult(pluginIndex)
              k == Len(uiObjects) + 1
          IN  /\ \A i \in 1..Len(d.uiEntries) :
                    d.uiEntries[i].ui # 0
                       => d.uiEntries[i].displayNumber # displayNumber
              /\ IF pluginIndex < Len(chain) /\ ok
                   THEN /\ uiObjects' =
                             Append(uiObjects,
                                    [plugin |-> chain[pluginIndex + 1],
                                     display |-> displayNumber,
                                     index |-> pluginIndex,
                                     detached |-> FALSE])
                        /\ uiEntries' =
                             [ResizedEntries(d.uiEntries, pluginIndex + 1)
                                EXCEPT ![pluginIndex + 1] =
                                   [ui |-> k, displayNumber |-> displayNumber,
                                    pluginIndex |-> k]]
                        /\ idleCallback' =
                             [d.idleCallback EXCEPT ![displayNumber] = k]
                   ELSE /\ uiEntries' = d.uiEntries
                        /\ idleCallback' = d.idleCallback
                        /\ UNCHANGED uiObjects
    /\ UNCHANGED <<chain, idled>>
    /\ UNCHANGED nonManagerVars

\* detachAndShiftForRemoval(chainIndex) on the shared indices: the first
\* slot whose index equals chainIndex is detached and its index set to -1,
\* then every index above chainIndex that a slot points to is decremented
DetachAndShiftResult(chainIndex) ==
    LET matching == {i \in 1..Len(uiEntries) :
                        /\ uiEntries[i].pluginIndex # 0
                        /\ uiObjects[uiEntries[i].pluginIndex].index = chainIndex}
        found == IF matching = {} THEN 0
                 ELSE uiEntries[CHOOSE i \in matching :
                                   \A j \in matching : i <= j].pluginIndex
    IN  [k \in DOMAIN uiObjects |->
           IF k = found
             THEN [uiObjects[k] EXCEPT !.detached = TRUE, !.index = -1]
           ELSE IF k \in ReferencedObjects(uiEntries)
                   /\ uiObjects[k].index > chainIndex
             THEN [uiObjects[k] EXCEPT !.index = uiObjects[k].index - 1]
           ELSE uiObjects[k]]

\* nativeRemovePluginFromRack(position): detachAndShiftForRemoval, then
\* PluginChain::removePlugin
RemovePluginFromRack ==
    /\ \E position \in 0..(Len(chain) - 1) :
          /\ uiObjects' = DetachAndShiftResult(position)
          /\ chain' = [i \in 1..(Len(chain) - 1) |->
                         IF i <= position THEN chain[i] ELSE chain[i + 1]]
    /\ UNCHANGED <<uiEntries, idleCallback, idled>>
    /\ UNCHANGED nonManagerVars

\* nativeReorderRack(fromPos, toPos): PluginChain::reorderPlugins and, if it
\* moved a plugin, reorderUIs: the same move on the slots (the vector
\* grown to hold both positions) and every shared index a slot points to
\* set to the position of the slot.  The idle callbacks are paused
\* meanwhile.
ReorderRack ==
    /\ \E fromPos \in 0..(Len(chain) - 1) : \E toPos \in 0..(Len(chain) - 1) :
          /\ fromPos # toPos
          /\ chain' = MovedSeq(chain, fromPos, toPos)
          /\ LET grown == ResizedEntries(uiEntries,
                                         (IF fromPos > toPos THEN fromPos
                                                             ELSE toPos) + 1)
                 moved == MovedSeq(grown, fromPos, toPos)
             IN  /\ uiEntries' = moved
                 /\ uiObjects' =
                       [k \in DOMAIN uiObjects |->
                          IF k \in ReferencedObjects(moved)
                            THEN [uiObjects[k] EXCEPT !.index =
                                    (CHOOSE i \in 1..Len(moved) :
                                        moved[i].pluginIndex = k) - 1]
                            ELSE uiObjects[k]]
    /\ UNCHANGED <<idleCallback, idled>>
    /\ UNCHANGED nonManagerVars

\* the idle callback registered on a display, run by the display's
\* plugin-UI thread: nothing if the captured detached flag is set, else the
\* UI in the slot the captured index names is idled, if there is one
IdleCallbackRun ==
    /\ \E d \in DisplayNumbers :
          /\ idleCallback[d] # 0
          /\ LET k == idleCallback[d]
                 idx == uiObjects[k].index
             IN  idled' =
                    [display |-> d,
                     ui |-> IF /\ ~uiObjects[k].detached
                               /\ idx >= 0 /\ idx < Len(uiEntries)
                              THEN uiEntries[idx + 1].ui
                              ELSE 0]
    /\ UNCHANGED <<chain, uiEntries, uiObjects, idleCallback>>
    /\ UNCHANGED nonManagerVars

NextManager ==
    \/ CreatePluginUI
    \/ RemovePluginFromRack
    \/ ReorderRack
    \/ IdleCallbackRun

(***************************************************************************)
(* Worker group: X11Worker.  Host threads call start(), stop() and         *)
(* postAndWait(); the worker thread executes run().                        *)
(***************************************************************************)
WorkerInit ==
    /\ workerRunning = FALSE
    /\ tasks = <<>>
    /\ workerPc = "none"
    /\ task = 0
    /\ postPc = [s \in Submitters |-> "idle"]
    /\ stopPc = "idle"
    /\ posted = <<>>
    /\ executed = <<>>

\* start(): under mutex_, if (!running_) { running_ = true; thread_ =
\* std::thread(run) }; called with no thread left to join
WorkerStart ==
    /\ ~workerRunning
    /\ workerPc = "none"
    /\ stopPc = "idle"
    /\ workerRunning' = TRUE
    /\ workerPc' = "top"
    /\ UNCHANGED <<tasks, task, postPc, stopPc, posted, executed>>
    /\ UNCHANGED nonWorkerVars

\* stop(): under mutex_, if (!running_) return; running_ = false; then
\* notify_all and on to the join
WorkerStop ==
    /\ stopPc = "idle"
    /\ workerRunning
    /\ workerRunning' = FALSE
    /\ stopPc' = "join"
    /\ UNCHANGED <<tasks, workerPc, task, postPc, posted, executed>>
    /\ UNCHANGED nonWorkerVars

\* stop(): thread_.join() returns once run() has returned
WorkerJoin ==
    /\ stopPc = "join"
    /\ workerPc = "exited"
    /\ stopPc' = "idle"
    /\ workerPc' = "none"
    /\ UNCHANGED <<workerRunning, tasks, task, postPc, posted, executed>>
    /\ UNCHANGED nonWorkerVars

\* postAndWait(task) by submitter s, up to future.wait(): under mutex_ the
\* task is dropped and the call returns if the worker is not running, else
\* the task is pushed and the caller waits for its promise
PostAndWait(s) ==
    /\ postPc[s] # "waiting"
    /\ Len(posted) < MaxPosts
    /\ IF ~workerRunning
         THEN /\ postPc' = [postPc EXCEPT ![s] = "dropped"]
              /\ UNCHANGED <<tasks, posted>>
         ELSE /\ tasks' = Append(tasks, s)
              /\ posted' = Append(posted, s)
              /\ postPc' = [postPc EXCEPT ![s] = "waiting"]
    /\ UNCHANGED <<workerRunning, workerPc, task, stopPc, executed>>
    /\ UNCHANGED nonWorkerVars

\* run(): while (running_.load())
WorkerLoopTop ==
    /\ workerPc = "top"
    /\ workerPc' = IF workerRunning THEN "wait" ELSE "exited"
    /\ UNCHANGED <<workerRunning, tasks, task, postPc, stopPc, posted, executed>>
    /\ UNCHANGED nonWorkerVars

\* run(): cv_.wait(lock, !tasks_.empty() || !running_); break if stopped
\* with an empty queue, else the front task is popped
WorkerTake ==
    /\ workerPc = "wait"
    /\ tasks # <<>> \/ ~workerRunning
    /\ IF ~workerRunning /\ tasks = <<>>
         THEN /\ workerPc' = "exited"
              /\ UNCHANGED <<tasks, task>>
         ELSE /\ task' = Head(tasks)
              /\ tasks' = Tail(tasks)
              /\ workerPc' = "run"
    /\ UNCHANGED <<workerRunning, postPc, stopPc, posted, executed>>
    /\ UNCHANGED nonWorkerVars

\* run(): task(), which ends with promise.set_value() and so releases the
\* submitter; then back to the loop condition
WorkerRunTask ==
    /\ workerPc = "run"
    /\ executed' = Append(executed, task)
    /\ postPc' = [postPc EXCEPT ![task] = "returned"]
    /\ task' = 0
    /\ workerPc' = "top"
    /\ UNCHANGED <<workerRunning, tasks, stopPc, posted>>
    /\ UNCHANGED nonWorkerVars

NextWorker ==
    \/ WorkerStart
    \/ WorkerStop
    \/ WorkerJoin
    \/ \E s \in Submitters : PostAndWait(s)
    \/ WorkerLoopTop
    \/ WorkerTake
    \/ WorkerRunTask

Init ==
    /\ RenderInit
    /\ LifeInit
    /\ PhaseInit
    /\ WireInit
    /\ TouchInit
    /\ ImageInit
    /\ AtomInit
    /\ ManagerInit
    /\ WorkerInit

SpecRender == Init /\ [][NextRender]_vars

SpecDetach == Init /\ [][NextDetach]_vars

\* every thread that can take a step is eventually scheduled, and the clock
\* advances; nothing is assumed of the client or of the host
SpecDetachFair ==
    /\ SpecDetach
    /\ WF_vars(ServerStep)
    /\ WF_vars(PluginStep)
    /\ WF_vars(RenderStep)
    /\ WF_vars(DetachStep)
    /\ WF_vars(CloseTimerExpires)
    /\ WF_vars(StopRenderThreadWait)

SpecTasks == Init /\ [][NextTasks]_vars

\* the plugin-callback thread, the thread inside detachSurface and a caller
\* whose future is ready are eventually scheduled
SpecTasksFair ==
    /\ SpecTasks
    /\ WF_vars(PluginStep)
    /\ WF_vars(DetachStep)
    /\ \A s \in Submitters : WF_vars(PostTaskReturns(s))

SpecSock == Init /\ [][NextSock]_vars

SpecPhase == Init /\ [][NextPhase]_vars

SpecWire == Init /\ [][NextWire]_vars

SpecTouch == Init /\ [][NextTouch]_vars

SpecQueue == Init /\ [][NextQueue]_vars

SpecWindows == Init /\ [][NextWindows]_vars

SpecConfigure == Init /\ [][NextConfigure]_vars

SpecStacking == Init /\ [][NextStacking]_vars

SpecImage == Init /\ [][NextImage]_vars

SpecAtom == Init /\ [][NextAtom]_vars

SpecFrame == Init /\ [][NextFrame]_vars
SpecPixmap == Init /\ [][NextPixmap]_vars
SpecManager == Init /\ [][NextManager]_vars

\* the worker thread and a caller inside join keep running
SpecWorkerFair ==
    /\ Init
    /\ [][NextWorker]_vars
    /\ WF_vars(WorkerLoopTop)
    /\ WF_vars(WorkerTake)
    /\ WF_vars(WorkerRunTask)
    /\ WF_vars(WorkerJoin)

SpecTeardown == Init /\ [][NextTeardown]_vars

SpecEvents == Init /\ [][NextEvents]_vars

(***************************************************************************)
(* C1 (as stated): in every interleaving of the protocol thread's window   *)
(* writes with the compositor's snapshot-then-clear, no window write is    *)
(* lost: the system never reaches a state in which the dirty flag is       *)
(* false, the compositor is waiting for the dirty flag, and the            *)
(* framebuffer holds a completed window write (written, dirty set, lock    *)
(* released) that the last staging snapshot does not contain.  The state   *)
(* is taken with the GL pipeline built, so that the loss shown is the one  *)
(* of the snapshot/clear sequence and not the dirty = false of a failed    *)
(* initGL.                                                                 *)
(***************************************************************************)
C1_NoLostWrite ==
    ~(/\ dirty = FALSE
      /\ rpc = "wait"
      /\ renderThreadRunning
      /\ glInited
      /\ wpc = "idle"
      /\ rbWrites < fbWrites)

(***************************************************************************)
(* C2 (as stated): once detachSurface has been called on an attached       *)
(* display with no plugin creation in progress (signalDetach has returned  *)
(* "not deferred"), detachSurface eventually returns: the plugin-callback  *)
(* thread, the protocol thread and the compositor thread have left their   *)
(* loops and been joined and both sockets are closed.  Checked under       *)
(* SpecDetachFair, where every runnable thread is scheduled and the clock  *)
(* advances but no client is obliged to connect.                           *)
(***************************************************************************)
C2_DetachReturns ==
    (dpc = "stopUI") ~> (/\ dpc = "returned"
                         /\ ppc = "exited"
                         /\ spc = "exited"
                         /\ rpc = "exited"
                         /\ clientFd < 0
                         /\ serverFd < 0)

\* a step by which the teardown of nativeDetachAndDestroyX11DisplayIfExists
\* takes effect: signalDetach starting the graceful close, or
\* destroyX11Display destroying the display
TeardownExecutes ==
    \/ dpc = "signal" /\ dpc' = "stopUI"
    \/ tpc = "inDetach" /\ tpc' = "inDtor"
    \/ tpc = "inDtor" /\ tpc' = "erase"

(***************************************************************************)
(* C3 (as stated): the full teardown of the display                        *)
(* (nativeDetachAndDestroyX11DisplayIfExists -> detachSurface and          *)
(* destroyX11Display) is never executed while a creation for the display   *)
(* is between nativeBeginCreatePluginUI and the return of                  *)
(* nativeCreatePluginUI: every step by which the teardown takes effect is  *)
(* taken with the creating thread outside that window.                     *)
(***************************************************************************)
C3_NoTeardownWhileCreating ==
    [][TeardownExecutes => kpc = "idle"]_vars

(***************************************************************************)
(* C4 (as stated): a detach request recorded as deferred is honored once   *)
(* instantiation completes: whenever nativeCreatePluginUI has returned     *)
(* with a UI created and a deferred request is on record, that UI has been *)
(* destroyed and the phase is neither Creating nor Ready.                  *)
(***************************************************************************)
C4_DeferredHonored ==
    (kpc = "idle" /\ kResult /\ hasState /\ detachPending)
        => (~uiExists /\ phase \notin {"Creating", "Ready"})

(***************************************************************************)
(* C5 (as stated): once a client is connected, every send and recv on the  *)
(* client socket is performed by the protocol thread; the host-facing      *)
(* operations (requestFrame, startRenderThread, stopRenderThreadOnly,      *)
(* setSurfaceSize, injectTouch) only enqueue work or set flags, so no      *)
(* other thread is ever recorded as having used the socket.                *)
(***************************************************************************)
C5_SocketOwnedByServer ==
    sockAccess \subseteq {"server"}

(***************************************************************************)
(* C6 (as stated): every call to postTaskAndWait eventually returns, under *)
(* every interleaving with detachSurface stopping the plugin-callback      *)
(* thread: a closure queued before, while or after the thread observes the *)
(* stop flag is still executed.  Checked under SpecTasksFair.              *)
(***************************************************************************)
C6_PostTaskAndWaitReturns ==
    \A s \in Submitters : (sub[s] = "waiting") ~> (sub[s] = "returned")

\* the word offsets at which the client's requests begin and end
RECURSIVE StartOf(_)
StartOf(k) == IF k = 0 THEN 0 ELSE StartOf(k - 1) + ReqWords(stream[k])

RequestBoundaries == {StartOf(k) : k \in 0..Len(stream)}

\* the number of the client's requests the server has received: those whose
\* header lies before the read position
RequestsReceived ==
    Cardinality({k \in 1..Len(stream) : StartOf(k - 1) < wpos})

\* the client's n-th request is one the server answers
ReplyBearing(r) == r.len # 0 /\ r.op # 72 /\ HasReply(r.op, r.minor)

RECURSIVE ExpectedReplies(_)
ExpectedReplies(k) ==
    IF k = 0 THEN <<>>
    ELSE IF ReplyBearing(stream[k])
           THEN Append(ExpectedReplies(k - 1), k % 65536)
           ELSE ExpectedReplies(k - 1)

(***************************************************************************)
(* C7 (as stated): the n-th request received on a connection (void,        *)
(* unknown and BigRequests-framed requests counted), if it is              *)
(* reply-bearing, gets exactly one reply whose sequence field is           *)
(* n mod 2^16: the replies sent so far are exactly those of the            *)
(* reply-bearing requests received so far, in order, each with its         *)
(* request's ordinal.                                                      *)
(***************************************************************************)
C7_ReplySequence ==
    replies = ExpectedReplies(RequestsReceived)

(***************************************************************************)
(* C8 (as stated): unknown-opcode and void requests never cause a reply:   *)
(* the number of replies sent always equals the number of reply-bearing    *)
(* requests processed.                                                     *)
(***************************************************************************)
C8_ReplyCount ==
    Len(replies) = Cardinality({n \in 1..RequestsReceived : ReplyBearing(stream[n])})

(***************************************************************************)
(* C9 (as stated): for every request, whatever its opcode, length and      *)
(* payload, the server consumes exactly the declared bytes (4 x length, or *)
(* 4 x the extended length) before it reads the next header: the read      *)
(* position is always at a boundary between two of the client's requests.  *)
(***************************************************************************)
C9_ExactFraming ==
    wpos \in RequestBoundaries

\* the button events among a sequence of pointer events, each as the pair of
\* its type and the window it is addressed to
RECURSIVE ButtonsOf(_)
ButtonsOf(es) ==
    IF es = <<>> THEN <<>>
    ELSE (IF Head(es).type \in {"ButtonPress", "ButtonRelease"}
            THEN << <<Head(es).type, Head(es).wid>> >> ELSE <<>>)
         \o ButtonsOf(Tail(es))

\* the button events the touches of a queue are due, on a plugin whose only
\* window is the top-level window: a ButtonPress for a down, a
\* ButtonRelease for an up, none for a move
RECURSIVE ExpectedButtons(_)
ExpectedButtons(ts) ==
    IF ts = <<>> THEN <<>>
    ELSE (CASE Head(ts).action = 0 -> << <<"ButtonPress", childWindows[1]>> >>
            [] Head(ts).action = 1 -> << <<"ButtonRelease", childWindows[1]>> >>
            [] OTHER -> <<>>)
         \o ExpectedButtons(Tail(ts))

\* a step taken while a client is connected whose only window is the
\* top-level window, and no window other than that one holds the grab
SingleWindowStep ==
    /\ clientFd >= 0
    /\ clientFd' >= 0
    /\ Len(childWindows) = 1
    /\ childWindows' = childWindows
    /\ grabWindow \in {0, childWindows[1]}

(***************************************************************************)
(* C10: on a connected single-window plugin, a touch down followed by a    *)
(* touch up results in exactly one ButtonPress and exactly one             *)
(* ButtonRelease on the client socket, both addressed to the top-level     *)
(* window, the ButtonPress first.  As a property of every step: the button *)
(* events written so far, followed by those due to the touches being       *)
(* drained and then to the touches still queued (a ButtonPress to the      *)
(* top-level window for a down, a ButtonRelease to it for an up, nothing   *)
(* for a move), form a sequence that no step changes but an injection,     *)
(* which writes nothing and puts its touch at the end of the queue (or     *)
(* overwrites a move at the end with a move).  So each touch yields its    *)
(* event once, for the top-level window, in injection order.               *)
(***************************************************************************)
C10_TapDelivered ==
    [][SingleWindowStep =>
          IF touchLogCount' # touchLogCount
            THEN /\ pointerEvents' = pointerEvents
                 /\ pending' = pending
                 /\ LET n == Len(touchQueue) IN
                    \/ /\ Len(touchQueue') = n + 1
                       /\ SubSeq(touchQueue', 1, n) = touchQueue
                    \/ /\ Len(touchQueue') = n
                       /\ n > 0
                       /\ touchQueue[n].action = 2
                       /\ touchQueue'[n].action = 2
                       /\ SubSeq(touchQueue', 1, n - 1) =
                             SubSeq(touchQueue, 1, n - 1)
            ELSE ButtonsOf(pointerEvents') \o ExpectedButtons(pending')
                    \o ExpectedButtons(touchQueue')
                 = ButtonsOf(pointerEvents) \o ExpectedButtons(pending)
                    \o ExpectedButtons(touchQueue)]_vars

\* a down and an up were injected and both have been delivered: the socket
\* has carried a ButtonPress and then a ButtonRelease for the only window
C10_Witness ==
    /\ clientFd >= 0
    /\ Len(childWindows) = 1
    /\ touchLogCount = 2
    /\ touchQueue = <<>>
    /\ pending = <<>>
    /\ ButtonsOf(pointerEvents) =
          << <<"ButtonPress", childWindows[1]>>,
             <<"ButtonRelease", childWindows[1]>> >>

\* no two adjacent entries of a queue are moves
NoAdjacentMoves(q) ==
    \A i \in 1..(Len(q) - 1) : ~(q[i].action = 2 /\ q[i + 1].action = 2)

(***************************************************************************)
(* C11: whatever the interleaving of injectTouch calls and drains, the     *)
(* touch queue never holds two adjacent moves, and a down or an up         *)
(* injected while a client is connected is in the queue exactly once, in   *)
(* injection order, until it is drained.  As a property of every step: the *)
(* queue after the step has no two adjacent moves; an injection of a down  *)
(* or an up with a client connected appends that touch to the queue; and   *)
(* the queue changes only by an injection, which keeps every entry before  *)
(* the last in place, or by the drain's swap, which moves the whole queue  *)
(* into the drain's vector.                                                *)
(***************************************************************************)
C11_QueueCoalesced ==
    [][/\ NoAdjacentMoves(touchQueue')
       /\ \A action \in 0..1 : \A p \in TouchPoints :
             injectTouch(action, p[1], p[2]) /\ clientFd >= 0
                => /\ Len(touchQueue') = Len(touchQueue) + 1
                   /\ SubSeq(touchQueue', 1, Len(touchQueue)) = touchQueue
                   /\ touchQueue'[Len(touchQueue')].action = action
       /\ touchQueue' # touchQueue
             => \/ /\ touchLogCount' = touchLogCount + 1
                   /\ Len(touchQueue') = Len(touchQueue) + 1
                   /\ SubSeq(touchQueue', 1, Len(touchQueue)) = touchQueue
                \/ /\ touchLogCount' = touchLogCount + 1
                   /\ Len(touchQueue') = Len(touchQueue)
                   /\ \A i \in 1..(Len(touchQueue) - 1) :
                         touchQueue'[i] = touchQueue[i]
                   /\ touchQueue[Len(touchQueue)].action = 2
                   /\ touchQueue'[Len(touchQueue)].action = 2
                \/ /\ touchQueue' = <<>>
                   /\ pending' = touchQueue]_vars

\* a down and then an up were injected with a client connected, and the
\* queue holds the two, the down first
C11_Witness ==
    /\ clientFd >= 0
    /\ touchLogCount = 2
    /\ Len(touchQueue) = 2
    /\ touchQueue[1].action = 0
    /\ touchQueue[2].action = 1

\* the window a sequence of pointer events leaves grabbed: that of its last
\* button event if this is a ButtonPress, else none (0)
RECURSIVE GrabbedBy(_)
GrabbedBy(es) ==
    IF es = <<>> THEN 0
    ELSE LET e == es[Len(es)] IN
         IF e.type = "ButtonPress" THEN e.wid
         ELSE IF e.type = "ButtonRelease" THEN 0
         ELSE GrabbedBy(SubSeq(es, 1, Len(es) - 1))

\* a point of the plugin's coordinate space relative to a window, as 16-bit
\* words: the top-level window is the origin of that space (PutImage draws
\* it at offset 0, and a ButtonPress on it carries the point unchanged);
\* any other window lies at getAbsolutePos
RelativeTo(wid, x, y) ==
    IF childWindows # <<>> /\ wid = childWindows[1]
      THEN <<x % 65536, y % 65536>>
      ELSE LET a == getAbsolutePos(wid)
           IN  <<(x - a[1]) % 65536, (y - a[2]) % 65536>>

\* the pointer events a step has written to the client socket
NewPointerEvents ==
    SubSeq(pointerEvents', Len(pointerEvents) + 1, Len(pointerEvents'))

\* the point the i-th event written by a step of the drain is about: the
\* buffered drag for the flushed MotionNotify, else the touch in hand
PointOfNewEvent(i) ==
    IF hasPendingDrag /\ i = 1 THEN <<pendingDragX, pendingDragY>>
    ELSE <<Head(pending).x, Head(pending).y>>

(***************************************************************************)
(* C12: between a ButtonPress delivered to window W and the next           *)
(* ButtonRelease, every MotionNotify and that ButtonRelease are addressed  *)
(* to W, with coordinates relative to W, wherever the pointer is; the grab *)
(* ends with the ButtonRelease.  As a property of every step taken when    *)
(* the last button event written on the connection is a ButtonPress to W:  *)
(* each MotionNotify and ButtonRelease the step writes is addressed to W   *)
(* and carries its point relative to W, and after a ButtonRelease no       *)
(* window holds the grab.                                                  *)
(***************************************************************************)
C12_GrabRespected ==
    [][LET W == GrabbedBy(pointerEvents)
           new == NewPointerEvents
       IN  W # 0 =>
             \A i \in 1..Len(new) :
                new[i].type \in {"MotionNotify", "ButtonRelease"} =>
                   /\ new[i].wid = W
                   /\ <<new[i].x, new[i].y>> =
                         RelativeTo(W, PointOfNewEvent(i)[1], PointOfNewEvent(i)[2])
                   /\ new[i].type = "ButtonRelease" => grabWindow' = 0]_vars

\* the protocol thread has read a reply-bearing request and has not yet
\* sent the reply to it
ReplyOwed == spc \in {"getImageDrain", "getImageDraining", "getImageReply"}

(***************************************************************************)
(* C13 (as stated): synthesized pointer events are written to the client   *)
(* socket only between complete request/reply exchanges: no step taken     *)
(* after the protocol thread has read a reply-bearing request and before   *)
(* it has sent the reply writes a pointer event.                           *)
(***************************************************************************)
C13_EventsBetweenExchanges ==
    [][ReplyOwed => pointerEvents' = pointerEvents]_vars

(***************************************************************************)
(* C14 (as stated): after any sequence of CreateWindow, MapWindow,         *)
(* UnmapWindow and DestroyWindow the window table holds no window whose    *)
(* recorded parent is neither the root nor a window of the table.          *)
(***************************************************************************)
C14_NoDanglingParent ==
    \A w \in DOMAIN windowPositions :
       windowPositions[w].parent \in {1} \cup DOMAIN windowPositions

(***************************************************************************)
(* C15: for any window and any reachable state, processing a               *)
(* ConfigureWindow request and then an identical one emits no              *)
(* ConfigureNotify and no Expose for the second request.                   *)
(***************************************************************************)
C15_ConfigureIdempotent ==
    \A req \in ConfigureRequests :
       LET first == ConfigureWindowResult(req, WindowTables)
           second == ConfigureWindowResult(req, first)
       IN  second.events = <<>>

\* a ConfigureWindow has resized a window, and there is a request that, sent
\* in this state, is answered with ConfigureNotify and Expose
C15_Witness ==
    /\ \E w \in DOMAIN windowSizes : windowSizes[w].w = 6
    /\ \E req \in ConfigureRequests :
          Len(ConfigureWindowResult(req, WindowTables).events) = 2

\* the wire bytes of a pixel with its alpha (padding) byte fully opaque:
\* the last byte of an LSB-first pixel, the first of an MSB-first one
OpaqueBytes(msb, b) ==
    IF msb THEN <<255, b[2], b[3], b[4]>> ELSE <<b[1], b[2], b[3], 255>>

\* the columns of a window that no mapped sub-window covers
VisibleColumns(drawable) ==
    IF drawable = ImageTopLevel.wid
      THEN {x \in 0..(ImageTopLevel.w - 1) :
              ~(x >= ImageSubWindow.x /\ x < ImageSubWindow.x + ImageSubWindow.w)}
      ELSE 0..(ImageSubWindow.w - 1)

(***************************************************************************)
(* C16 (as stated): for either byte order and any window, pixels written   *)
(* by PutImage to a region of the window and read back by GetImage over    *)
(* the same region are byte-identical on the wire to what was written,     *)
(* except that the alpha byte of every pixel reads back fully opaque.      *)
(* Checked for one-pixel regions inside the window that no sub-window      *)
(* covers, in every reachable state of the framebuffer.                    *)
(***************************************************************************)
C16_ImageRoundTrip ==
    \A drawable \in ImageDrawables : \A x \in VisibleColumns(drawable) :
    \A b \in PixelData :
       GetImageResult(msbFirst,
                      PutImageResult(msbFirst, framebuffer, drawable, x, b),
                      drawable, x)
          = OpaqueBytes(msbFirst, b)

\* the points hit testing is asked about: columns across every window
\* position the client can produce, one row inside the windows and one
\* below them
TestPoints == {<<x, y>> : x \in 0..9, y \in {1, 5}}

\* the parent, the parent's parent, ... of a window, as far as the table
\* records them
RECURSIVE AncestorsFrom(_, _)
AncestorsFrom(cur, depth) ==
    IF depth >= 32 \/ cur \notin DOMAIN windowPositions THEN {}
    ELSE {windowPositions[cur].parent}
           \cup AncestorsFrom(windowPositions[cur].parent, depth + 1)

\* the point lies inside the bounds of the window
InsideWindow(wid, pt) ==
    /\ wid \in DOMAIN windowPositions
    /\ wid \in DOMAIN windowSizes
    /\ LET abs == getAbsolutePos(wid)
           sz == windowSizes[wid]
       IN  /\ pt[1] >= abs[1] /\ pt[1] < abs[1] + sz.w
           /\ pt[2] >= abs[2] /\ pt[2] < abs[2] + sz.h

\* the mapped windows whose parent is a window of the client
MappedChildren ==
    {c \in Range(childWindows) \ unmappedWindows :
        /\ c \in DOMAIN windowPositions
        /\ windowPositions[c].parent \in Range(childWindows) \ {c}}

(***************************************************************************)
(* C17: after any sequence of window requests, hit testing a point inside  *)
(* the bounds of a mapped child window returns that child (or a mapped     *)
(* window above it that contains the point) and never its parent or        *)
(* another ancestor, although the ancestors contain the point too.         *)
(***************************************************************************)
C17_ChildBeforeParent ==
    \A c \in MappedChildren : \A pt \in TestPoints :
       InsideWindow(c, pt) =>
          LET r == hitTestChildWindow(pt[1], pt[2])
          IN  /\ r.wid \notin AncestorsFrom(c, 0)
              /\ \/ r.wid = c
                 \/ r.wid \notin unmappedWindows /\ InsideWindow(r.wid, pt)

(***************************************************************************)
(* C18: for any point and after any sequence of window requests, hit       *)
(* testing never returns a window that is unmapped at that moment (created *)
(* and not yet mapped, or hidden by UnmapWindow), whether the result comes *)
(* from the loop over the sub-windows or is the fallback.                  *)
(***************************************************************************)
C18_NoUnmappedHit ==
    \A pt \in TestPoints :
       hitTestChildWindow(pt[1], pt[2]).wid \notin unmappedWindows

\* the step is a reply to InternAtom(name, only_if_exists = false)
InternedNow(name) ==
    /\ atomReply'.op = "InternAtom"
    /\ ~atomReply'.onlyIfExists
    /\ atomReply'.name = name

(***************************************************************************)
(* C19: for any non-empty name, every InternAtom(name, only_if_exists =    *)
(* false), with any other requests before and between, is answered with a  *)
(* non-zero id; the id is the one the table holds for the name from then   *)
(* on, so a later InternAtom of the name returns it again, and GetAtomName *)
(* on that id returns the name.                                            *)
(***************************************************************************)
C19_InternAtomStable ==
    [][\A name \in WireNames \ {<<>>} :
          /\ InternedNow(name) =>
                /\ atomReply'.atomId # 0
                /\ name \in DOMAIN atomNameToId'
                /\ atomNameToId'[name] = atomReply'.atomId
                /\ GetAtomNameResult(AtomTable', atomReply'.atomId) = name
          /\ name \in DOMAIN atomNameToId =>
                /\ name \in DOMAIN atomNameToId'
                /\ atomNameToId'[name] = atomNameToId[name]
                /\ InternAtomResult(AtomTable', FALSE, name).atomId
                      = atomNameToId[name]]_vars

\* the table is a bijection between its names and the ids 1, 2, ..., and
\* the next id is the one after the last
AtomBijection ==
    /\ DOMAIN atomIdToName = 1..(nextAtomId - 1)
    /\ \A name \in DOMAIN atomNameToId :
          /\ atomNameToId[name] \in DOMAIN atomIdToName
          /\ atomIdToName[atomNameToId[name]] = name
    /\ \A id \in DOMAIN atomIdToName :
          /\ atomIdToName[id] \in DOMAIN atomNameToId
          /\ atomNameToId[atomIdToName[id]] = id

\* what a step may do to the table
AtomTableStep ==
    \* an entry is never removed or given to another name
    /\ \A id \in DOMAIN atomIdToName :
          id \in DOMAIN atomIdToName' /\ atomIdToName'[id] = atomIdToName[id]
    \* a new entry gets the next id, counted from 1
    /\ DOMAIN atomIdToName' \subseteq DOMAIN atomIdToName \cup {nextAtomId}
    /\ nextAtomId >= 1
    \* only an InternAtom without only_if_exists adds an entry
    /\ (atomReply'.op # "InternAtom" \/ atomReply'.onlyIfExists)
          => /\ atomNameToId' = atomNameToId
             /\ atomIdToName' = atomIdToName
             /\ nextAtomId' = nextAtomId

(***************************************************************************)
(* C20: in every reachable state the atom table is a bijection between     *)
(* names and ids; ids are handed out as 1, 2, 3, ... in order of first     *)
(* interning and 0 is never assigned; an id once assigned is never given   *)
(* to another name; an InternAtom with only_if_exists set never adds an    *)
(* entry; and the table keeps its entries when a client disconnects and    *)
(* the next one is accepted.                                               *)
(***************************************************************************)
C20_AtomTableBijective == []AtomBijection /\ [][AtomTableStep]_vars

\* a second client has been accepted while the table holds three atoms
C20_Witness ==
    /\ atomReply.op = "accept"
    /\ DOMAIN atomIdToName = 1..3

(***************************************************************************)
(* C21: whenever no client socket is open (before the first client, and    *)
(* after the request loop has ended and the socket has been closed, until  *)
(* the next client is accepted) the per-connection tables are empty: the   *)
(* window list, the window sizes, the window positions and the unmapped    *)
(* set hold no entry.                                                      *)
(***************************************************************************)
C21_TablesEmptyAfterClose ==
    clientFd = -1 =>
       /\ childWindows = <<>>
       /\ windowSizes = <<>>
       /\ windowPositions = <<>>
       /\ unmappedWindows = {}

\* the edges Detached -> Attached -> Creating -> Ready -> Destroying ->
\* Detached, Detached being Phase::None or no record
PhaseEdges ==
    {<<"None", "Attached">>, <<"Attached", "Creating">>,
     <<"Creating", "Ready">>, <<"Ready", "Destroying">>,
     <<"Destroying", "None">>}

(***************************************************************************)
(* C22: the phase of the display number only ever changes along the edges  *)
(* Detached -> Attached, Attached -> Creating, Creating -> Ready,          *)
(* Ready -> Destroying and Destroying -> Detached, under every             *)
(* interleaving of attach, begin-create, create, signal-detach and         *)
(* detach-and-destroy.                                                     *)
(***************************************************************************)
C22_PhaseEdgesOnly ==
    [][getDisplayPhase' # getDisplayPhase
          => <<getDisplayPhase, getDisplayPhase'>> \in PhaseEdges]_vars

\* the handshake of the request fails: the first byte names no byte order,
\* or the request or its authorization fields do not arrive completely
HandshakeFails(req) ==
    \/ req.byteOrder \notin {66, 108}
    \/ ~req.complete
    \/ ~req.authComplete

(***************************************************************************)
(* C23: a connection attempt whose handshake fails is aborted without a    *)
(* connection-accepted reply: when the first byte of the request is        *)
(* neither 0x42 nor 0x6c, or the 12-byte request or its authorization      *)
(* fields cannot be read completely, no setup reply is written and the     *)
(* client socket is closed.                                                *)
(***************************************************************************)
C23_FailedHandshakeAborted ==
    HandshakeFails(handshake.request)
       => handshake.reply = <<>> /\ ~handshake.open

\* a 16-bit and a 32-bit field as the client decodes it from the bytes at
\* offset off (counted from 0), in the byte order it declared
Decode16(msb, bytes, off) ==
    IF msb THEN 256 * bytes[off + 1] + bytes[off + 2]
           ELSE bytes[off + 1] + 256 * bytes[off + 2]

Decode32(msb, bytes, off) ==
    IF msb THEN 16777216 * bytes[off + 1] + 65536 * bytes[off + 2]
                  + 256 * bytes[off + 3] + bytes[off + 4]
           ELSE bytes[off + 1] + 256 * bytes[off + 2]
                  + 65536 * bytes[off + 3] + 16777216 * bytes[off + 4]

\* the 16-bit fields of the setup reply of the X11 protocol, as offset and
\* value: protocol version, length, vendor length, maximum request length,
\* scanline pad, screen size in pixels and millimetres, installed maps,
\* number of visuals, colormap entries
SetupFields16 ==
    {<<2, 11>>, <<4, 0>>, <<6, 28>>, <<24, 0>>, <<26, 32767>>, <<42, 32>>,
     <<68, surface.w>>, <<70, surface.h>>,
     <<72, (surface.w * 254) \div 100>>,
     <<74, (surface.h * 254) \div 100>>,
     <<76, 0>>, <<78, 0>>, <<90, 1>>, <<102, 256>>}

\* the 32-bit fields: release, resource-id base and mask, motion-buffer
\* size, root, colormap, white and black pixel, input masks, root visual,
\* visual id, red, green and blue mask
SetupFields32 ==
    {<<8, 0>>, <<12, 2097152>>, <<16, 2097151>>, <<20, 256>>, <<48, 1>>,
     <<52, 1>>, <<56, 16777215>>, <<60, 0>>, <<64, 0>>, <<80, 33>>,
     <<96, 33>>, <<104, 16711680>>, <<108, 65280>>, <<112, 255>>}

(***************************************************************************)
(* C24: for every accepted connection and either declared byte order, the  *)
(* connection-setup reply written to the socket is exactly 120 bytes long  *)
(* (8 bytes of header and the 4 * 28 bytes its length field announces),    *)
(* and every 16-bit and 32-bit field in it decodes, in the byte order the  *)
(* client declared in the first byte of its request, to the value the      *)
(* server announces.                                                       *)
(***************************************************************************)
C24_SetupReplyByteOrder ==
    (handshake.open /\ handshake.request.byteOrder \in {66, 108}) =>
       LET declared == handshake.request.byteOrder = 66
           reply == handshake.reply
       IN  /\ Len(reply) = 120
           /\ Len(reply) = 8 + 4 * Decode16(declared, reply, 6)
           /\ \A f \in SetupFields16 : Decode16(declared, reply, f[1]) = f[2]
           /\ \A f \in SetupFields32 : Decode32(declared, reply, f[1]) = f[2]
           /\ reply[31] = (IF declared THEN 1 ELSE 0)

\* an MSB-first client has been accepted and has written a pixel
C24_Witness ==
    /\ handshake.open
    /\ handshake.request.byteOrder = 66
    /\ Len(handshake.reply) = 120
    /\ \E i \in DOMAIN framebuffer : framebuffer[i] # BackgroundPixel


(***************************************************************************)
(* C25: in every reachable state in which the framebuffer is non-empty,    *)
(* its length equals effective width x effective height, the plugin size   *)
(* once a first window has fixed it and the surface size before that.      *)
(***************************************************************************)
C25_FramebufferSized ==
    framebuffer # <<>> =>
        Len(framebuffer) = EffectiveWidth * EffectiveHeight


(***************************************************************************)
(* C26: a ConfigureWindow that changes the size of the top-level window    *)
(* from (w,h) to (w',h') leaves every pixel (x,y) with x < min(w,w') and   *)
(* y < min(h,h') at its value, and is followed by one ConfigureNotify and  *)
(* then one Expose for that window.                                        *)
(***************************************************************************)
Min(a, b) == IF a <= b THEN a ELSE b

\* the pixel at (x,y) of a framebuffer that is w pixels wide
PixelAt(fb, w, x, y) == fb[y * w + x + 1]

C26_ResizePreservesPixels ==
    \A req \in ConfigureRequests :
       LET r == ConfigureWindowResult(req, WindowTables)
           w == pluginWidth
           h == pluginHeight
           w2 == r.pluginWidth
           h2 == r.pluginHeight
       IN  (/\ spc = "poll"
            /\ childWindows # <<>> /\ req.cfgWid = childWindows[1]
            /\ Len(framebuffer) = w * h
            /\ w > 0 /\ h > 0
            /\ (w2 # w \/ h2 # h))
           => /\ \A x \in 0..(Min(w, w2) - 1) : \A y \in 0..(Min(h, h2) - 1) :
                    PixelAt(r.framebuffer, w2, x, y) = PixelAt(framebuffer, w, x, y)
              /\ Len(r.events) = 2
              /\ r.events[1].type = "ConfigureNotify"
              /\ r.events[1].wid = req.cfgWid
              /\ r.events[2].type = "Expose"
              /\ r.events[2].wid = req.cfgWid


(***************************************************************************)
(* C27: a PutImage whose target window is unmapped at that moment, a       *)
(* window created and never mapped and the top-level window included,      *)
(* leaves the framebuffer unchanged and does not set the dirty flag.       *)
(***************************************************************************)
C27_UnmappedPutImageDiscarded ==
    [][\A req \in PutImageRequests :
          (/\ PutImageStep(req)
           /\ req.drawable \in Range(childWindows)
           /\ req.drawable \in unmappedWindows)
          => (framebuffer' = framebuffer /\ dirty' = dirty)]_vars


(***************************************************************************)
(* C28: on every client connection, the second and later ones included,    *)
(* the first window the client creates fixes the plugin width and height   *)
(* to that window's size and fills the whole framebuffer with the          *)
(* background colour.                                                      *)
(***************************************************************************)
C28_FirstWindowFixesSize ==
    [][(childWindows = <<>> /\ Len(childWindows') = 1)
       => LET size == windowSizes'[childWindows'[1]] IN
          /\ pluginWidth' = size.w
          /\ pluginHeight' = size.h
          /\ framebuffer' = FilledVector(size.w * size.h)]_vars


(***************************************************************************)
(* C29: pointer events are only ever addressed to the root or to a window  *)
(* that is in the window table at the time of sending; after the grabbed   *)
(* window is destroyed during a drag, or the client reconnects, no         *)
(* MotionNotify or ButtonRelease is sent to the destroyed window id.       *)
(***************************************************************************)
C29_EventsToLiveWindows ==
    [][\A i \in (Len(pointerEvents) + 1)..Len(pointerEvents') :
          \/ pointerEvents'[i].wid = 1
          \/ pointerEvents'[i].wid \in Range(childWindows)]_vars


(***************************************************************************)
(* C30: a MapSubwindows (opcode 9) or DestroySubwindows (opcode 5)         *)
(* request, whatever request preceded it, leaves every window's position   *)
(* and size, the plugin size and the framebuffer unchanged and sends no    *)
(* event (no Expose, no ConfigureNotify).                                  *)
(***************************************************************************)
C30_SubwindowsNoEffect ==
    \A req \in SubwindowsRequests :
       (spc = "poll" /\ req.cfgWid \in Range(childWindows))
       => LET r == ConfigureWindowResult(req, WindowTables) IN
          /\ r.windowPositions = windowPositions
          /\ r.windowSizes = windowSizes
          /\ r.pluginWidth = pluginWidth
          /\ r.pluginHeight = pluginHeight
          /\ r.framebuffer = framebuffer
          /\ r.events = <<>>


(***************************************************************************)
(* C31: once teardown has been signalled while a client is connected, the  *)
(* protocol thread processes no further client request and sends no        *)
(* further pointer event; it sends the DestroyNotify events once and then  *)
(* closes the client socket.                                               *)
(***************************************************************************)
\* a pass of the request loop that dispatches a request
RequestDispatched == spc = "poll" /\ spc' \in {"drainAfter", "getImageDrain"}

\* a pointer event written to the client socket
PointerEventSent == Len(pointerEvents') > Len(pointerEvents)

C31_QuietAfterSignal ==
    [][(closingGracefully /\ clientFd >= 0)
       => /\ ~RequestDispatched
          /\ ~PointerEventSent
          /\ (destroyNotifySent => destroyNotifySent')]_vars


(***************************************************************************)
(* C32: startRenderThread, called directly or through requestFrame, never  *)
(* returns leaving the display without a compositor thread in its loop:    *)
(* after it the render-running flag is true and the thread is neither      *)
(* leaving nor has left renderLoop; the protocol thread, the client        *)
(* connection and the window tables are as before.                         *)
(***************************************************************************)
C32_RestartLeavesCompositorRunning ==
    [][StartRenderThread
       => /\ renderThreadRunning'
          /\ rpc' \notin {"exit", "exited"}
          /\ UNCHANGED <<spc, clientFd, clientState, childWindows, tableVars>>]_vars


(***************************************************************************)
(* C33: every synthesized event carries the sequence number of the most    *)
(* recent reply sent on the current connection, 0 when none was sent yet,  *)
(* hence a number never greater than the count of requests received so     *)
(* far on that connection, on a second and later connection too.           *)
(***************************************************************************)
\* the sequence number of the last reply of the current connection
LastReplyOfConnection ==
    IF replies = <<>> THEN 0 ELSE replies[Len(replies)]

C33_EventSeqFromConnection ==
    [][\A i \in (Len(stamped) + 1)..Len(stamped') :
          /\ stamped'[i] = LastReplyOfConnection
          /\ stamped'[i] <= seq]_vars


(***************************************************************************)
(* C34: a PutImage to a window never changes a framebuffer pixel that lies *)
(* inside the bounds of a currently mapped child window of that window,    *)
(* on the fast path and on the slow path alike, while every pixel of the   *)
(* written region that is inside the framebuffer and outside all such      *)
(* children takes the incoming value.  Checked for rows of one and two     *)
(* pixels, for either byte order, on every reachable window table; a       *)
(* target that is an unmapped sub-window is left to C27.                   *)
(***************************************************************************)
ClipPixels == {<< <<1, 2, 3, 4>> >>, << <<1, 2, 3, 4>>, <<5, 6, 7, 8>> >>}
ClipRequests ==
    [drawable : {1} \cup WindowIds, at : {<<1, 1>>, <<2, 1>>, <<5, 1>>},
     data : ClipPixels]

\* the mapped child windows of a window
MappedChildrenOf(drawable) ==
    {cw \in DOMAIN windowPositions \cap DOMAIN windowSizes :
        windowPositions[cw].parent = drawable /\ cw \notin unmappedWindows}

\* the point (px,py) of the framebuffer lies in a mapped child of drawable
InMappedChild(drawable, px, py) ==
    \E cw \in MappedChildrenOf(drawable) :
       LET c == getAbsolutePos(cw) IN
       /\ px >= c[1] /\ px < c[1] + windowSizes[cw].w
       /\ py >= c[2] /\ py < c[2] + windowSizes[cw].h

\* the 32-bit value of four wire bytes in the client's byte order, alpha
\* forced, as the bytes of the word in memory
IncomingValue(msb, b) ==
    IF msb THEN <<b[4], b[3], b[2], 255>> ELSE <<b[1], b[2], b[3], 255>>

\* the top-level window and the root are drawn at the origin, any other
\* window at its absolute position
DrawnAtOrigin(drawable) ==
    drawable = 1 \/ (childWindows # <<>> /\ drawable = childWindows[1])

DrawOrigin(drawable) ==
    IF DrawnAtOrigin(drawable) THEN <<0, 0>> ELSE getAbsolutePos(drawable)

C34_PutImageClipped ==
    \A msb \in BOOLEAN : \A req \in ClipRequests :
       (/\ spc = "poll"
        /\ req.drawable \in {1} \cup Range(childWindows)
        /\ (req.drawable \in unmappedWindows => DrawnAtOrigin(req.drawable))
        /\ framebuffer # <<>>)
       => LET r == PutImageOnTables(msb, req)
              dW == EffectiveWidth
              org == DrawOrigin(req.drawable)
              y == req.at[2] + org[2]
          IN  /\ Len(r.framebuffer) = Len(framebuffer)
              /\ \A i \in 1..Len(framebuffer) :
                    InMappedChild(req.drawable, (i - 1) % dW, (i - 1) \div dW)
                    => r.framebuffer[i] = framebuffer[i]
              /\ \A col \in 0..(Len(req.data) - 1) :
                    LET x == req.at[1] + org[1] + col
                        i == y * dW + x + 1
                    IN  (/\ x >= 0 /\ x < dW /\ y >= 0 /\ i <= Len(framebuffer)
                         /\ ~InMappedChild(req.drawable, x, y))
                        => r.framebuffer[i] = IncomingValue(msb, req.data[col + 1])


(***************************************************************************)
(* C35: GetGeometry on the root window and on the top-level plugin window  *)
(* reports the top-level window's original creation width and height,      *)
(* scaled by the UI scale factor; the answer is the same before and after  *)
(* any ConfigureWindow resize of the top-level window.                     *)
(***************************************************************************)
\* (int)(original * uiScale), at least 1
ScaledOriginal(uiScale) ==
    LET atLeastOne(v) == IF v < 1 THEN 1 ELSE v IN
    [w |-> atLeastOne(TruncDiv(originalChild.w * uiScale[1], uiScale[2])),
     h |-> atLeastOne(TruncDiv(originalChild.h * uiScale[1], uiScale[2]))]

Opaque(buf) == \A i \in DOMAIN buf : buf[i][4] = 255

C36_AlphaOpaque ==
    /\ Opaque(framebuffer)
    /\ \A pid \in DOMAIN pixmaps : Opaque(pixmaps[pid].pixels)


(***************************************************************************)
(* C37: after MapWindow of a popup (a window whose parent is the root and  *)
(* which is not the top-level plugin window), every window of the popup's  *)
(* subtree comes after every window outside the subtree in hit-test order  *)
(* and each parent in the subtree precedes its descendants, whatever ids   *)
(* the client chose; the set of tracked windows is unchanged (none lost,   *)
(* none duplicated) and the top-level window keeps the first position.     *)
(***************************************************************************)
\* wid is a tracked child of the root other than the top-level window
IsPopup(wid) ==
    /\ childWindows # <<>>
    /\ wid \in Range(childWindows)
    /\ wid # childWindows[1]
    /\ wid \in DOMAIN windowPositions
    /\ windowPositions[wid].parent = 1

\* the position of a window in a hit-test order
IndexIn(order, w) == CHOOSE i \in 1..Len(order) : order[i] = w

\* order holds the windows of subtree after all others, parents first
RaisedIn(order, subtree) ==
    /\ \A i, j \in 1..Len(order) :
          (order[i] \in subtree /\ order[j] \notin subtree) => j < i
    /\ \A w \in subtree :
          windowPositions[w].parent \in subtree
             => IndexIn(order, windowPositions[w].parent) < IndexIn(order, w)

C37_PopupSubtreeRaised ==
    [][\A wid \in StackedWindowIds :
          (MapWindowAmong({wid}) /\ IsPopup(wid))
          => /\ Len(childWindows') = Len(childWindows)
             /\ Range(childWindows') = Range(childWindows)
             /\ childWindows'[1] = childWindows[1]
             /\ RaisedIn(childWindows', SubtreeOf({wid}))]_vars


(***************************************************************************)
(* C38: isWidgetAtPoint answers true for a point exactly in these cases:   *)
(* the plugin has a single window and no sub-windows and the point lies    *)
(* inside that window; or the plugin has sub-windows and the point lies    *)
(* inside a mapped sub-window.  It answers false for every other point,    *)
(* including any point when no window exists yet and points on the         *)
(* top-level background of a multi-window plugin.                          *)
(***************************************************************************)
\* the surface points the host asks about
WidgetPoints == {<<x, y>> : x \in 0..8, y \in {1, 7}}

\* the point lies on the surface
OnSurface(pt) ==
    pt[1] >= 0 /\ pt[1] < surface.w /\ pt[2] >= 0 /\ pt[2] < surface.h

\* the plugin point lies inside the top-level window, which is drawn at
\* the origin of the plugin's coordinate space
InsideTopLevel(pt) ==
    /\ childWindows[1] \in DOMAIN windowSizes
    /\ pt[1] >= 0 /\ pt[1] < windowSizes[childWindows[1]].w
    /\ pt[2] >= 0 /\ pt[2] < windowSizes[childWindows[1]].h

\* the plugin point lies inside a mapped window other than the top-level one
InsideMappedSubWindow(pt) ==
    \E i \in 2..Len(childWindows) :
       /\ childWindows[i] \notin unmappedWindows
       /\ InsideWindow(childWindows[i], pt)

C38_WidgetAtPoint ==
    \A pt \in WidgetPoints :
       LET m == MapTouch(pt[1], pt[2]) IN
       OnSurface(pt) =>
          (isWidgetAtPoint(pt[1], pt[2])
             <=> \/ Len(childWindows) = 1 /\ InsideTopLevel(m)
                 \/ Len(childWindows) > 1 /\ InsideMappedSubWindow(m))


(***************************************************************************)
(* C39: after any sequence of createPluginUI, plugin removal and reorder,  *)
(* every plugin UI that is not detached has a captured plugin index equal  *)
(* to the current chain position of the plugin it was created for, and the *)
(* idle callback of a display idles the UI that was created for that       *)
(* display and no other.                                                   *)
(***************************************************************************)
\* the UIs the slots hold
LiveUIs == {uiEntries[i].ui : i \in 1..Len(uiEntries)} \ {0}

\* the captured index of UI k is the chain position of its plugin
IndexInSync(k) ==
    /\ uiObjects[k].index >= 0
    /\ uiObjects[k].index < Len(chain)
    /\ chain[uiObjects[k].index + 1] = uiObjects[k].plugin

C39_IndicesInSync ==
    /\ \A k \in LiveUIs : ~uiObjects[k].detached => IndexInSync(k)
    /\ idled.ui # 0 => uiObjects[idled.ui].display = idled.display


\* C40: every postAndWait call returns - a caller that has queued its task
\* and waits for it is eventually released by the worker thread having run
\* the task, whatever stop() does meanwhile - and the tasks that are
\* executed are executed in the order in which they were posted
C40_PostAndWaitReturns ==
    /\ \A s \in Submitters : (postPc[s] = "waiting") ~> (postPc[s] = "returned")
    /\ [](executed = SubSeq(posted, 1, Len(executed)))

====
